---- MODULE Spec2Model ----
\* Knowledge-graph storage core of semantic-memory-mcp: the entity/fact store
\* (relational and graph-native backends), the scope classifier, the dual-layer
\* merge coordinator and the promotion workflow.
EXTENDS Integers, Sequences, FiniteSets, TLC

\* ---------------------------------------------------------------------------
\* Strings are sequences of one-character strings, so that lower-casing,
\* trimming, substring search and LIKE patterns are computed, not assumed.
\* ---------------------------------------------------------------------------

LowerAlpha == <<"a", "b", "c", "d", "e", "f", "g", "h", "i", "j", "k", "l", "m", "n", "o", "p", "q", "r", "s", "t", "u", "v", "w", "x", "y", "z">>

UpperAlpha == <<"A", "B", "C", "D", "E", "F", "G", "H", "I", "J", "K", "L", "M", "N", "O", "P", "Q", "R", "S", "T", "U", "V", "W", "X", "Y", "Z">>

IsUpper(c) == \E i \in 1..Len(UpperAlpha) : UpperAlpha[i] = c

IsLower(c) == \E i \in 1..Len(LowerAlpha) : LowerAlpha[i] = c

LowerChar(c) ==
  IF IsUpper(c) THEN LowerAlpha[CHOOSE i \in 1..Len(UpperAlpha) : UpperAlpha[i] = c] ELSE c

UpperChar(c) ==
  IF IsLower(c) THEN UpperAlpha[CHOOSE i \in 1..Len(LowerAlpha) : LowerAlpha[i] = c] ELSE c

\* String.prototype.toLowerCase / SQL LOWER / Cypher toLower on ASCII text
toLowerCase(s) == [i \in 1..Len(s) |-> LowerChar(s[i])]

toUpperCase(s) == [i \in 1..Len(s) |-> UpperChar(s[i])]

IsSpace(c) == c \in {" ", "\t", "\n"}

\* String.prototype.trim: drop the whitespace at both ends
trim(s) ==
  LET keep == {i \in 1..Len(s) : ~IsSpace(s[i])}
  IN IF keep = {} THEN <<>>
     ELSE LET lo == CHOOSE i \in keep : \A j \in keep : i <= j
              hi == CHOOSE i \in keep : \A j \in keep : j <= i
          IN SubSeq(s, lo, hi)

\* q occurs in s as a contiguous substring (Cypher CONTAINS)
Contains(s, q) ==
  \E i \in 1..(Len(s) + 1) :
    /\ i + Len(q) - 1 <= Len(s)
    /\ \A j \in 1..Len(q) : s[i + j - 1] = q[j]

\* SQLite LIKE: % matches any run of characters, _ matches exactly one, every
\* other pattern character matches itself (ASCII case-insensitively); there is
\* no ESCAPE clause in the statements of db.ts.
RECURSIVE Like(_, _)
Like(pat, s) ==
  IF pat = <<>> THEN s = <<>>
  ELSE IF Head(pat) = "%" THEN
         \/ Like(Tail(pat), s)
         \/ (s # <<>> /\ Like(pat, Tail(s)))
  ELSE IF s = <<>> THEN FALSE
  ELSE IF Head(pat) = "_" THEN Like(Tail(pat), Tail(s))
  ELSE LowerChar(Head(pat)) = LowerChar(Head(s)) /\ Like(Tail(pat), Tail(s))

\* ---------------------------------------------------------------------------
\* Scope classifier (classify.ts)
\* ---------------------------------------------------------------------------

GLOBAL_PREDICATES ==
  { <<"u", "s", "e", "s">>,
    <<"d", "e", "p", "e", "n", "d", "s", "_", "o", "n">>,
    <<"d", "e", "p", "l", "o", "y", "e", "d", "_", "o", "n">>,
    <<"w", "r", "i", "t", "t", "e", "n", "_", "i", "n">>,
    <<"h", "a", "s", "_", "v", "e", "r", "s", "i", "o", "n">>,
    <<"r", "u", "n", "s", "_", "o", "n">>,
    <<"b", "u", "i", "l", "t", "_", "w", "i", "t", "h">>,
    <<"i", "n", "t", "e", "g", "r", "a", "t", "e", "s", "_", "w", "i", "t", "h">>,
    <<"p", "r", "e", "f", "e", "r", "s">>,
    <<"c", "o", "n", "v", "e", "n", "t", "i", "o", "n">> }

PROJECT_PREDICATES ==
  { <<"b", "l", "o", "c", "k", "e", "d", "_", "b", "y">>,
    <<"w", "o", "r", "k", "a", "r", "o", "u", "n", "d", "_", "f", "o", "r">>,
    <<"t", "o", "d", "o">>,
    <<"b", "u", "g", "_", "i", "n">>,
    <<"f", "i", "x", "e", "d", "_", "b", "y">>,
    <<"n", "e", "e", "d", "s", "_", "r", "e", "f", "a", "c", "t", "o", "r">>,
    <<"h", "a", "s", "_", "p", "a", "t", "t", "e", "r", "n">>,
    <<"t", "e", "s", "t", "_", "f", "o", "r">>,
    <<"c", "o", "n", "f", "i", "g", "_", "f", "o", "r">> }

\* mutant of classifyScope: the input is lower-cased but not trimmed
classifyScopeNoTrim(predicate) ==
  LET normalized == toLowerCase(predicate)
  IN IF normalized \in GLOBAL_PREDICATES THEN "global"
     ELSE IF normalized \in PROJECT_PREDICATES THEN "project"
     ELSE "project"

classifyScope(predicate) ==
  LET normalized == trim(toLowerCase(predicate))
  IN IF normalized \in GLOBAL_PREDICATES THEN "global"
     ELSE IF normalized \in PROJECT_PREDICATES THEN "project"
     ELSE "project"

\* ---------------------------------------------------------------------------
\* Values
\* ---------------------------------------------------------------------------

Range(f) == {f[i] : i \in DOMAIN f}

Max(S) == CHOOSE x \in S : \A y \in S : y <= x

Min(S) == CHOOSE x \in S : \A y \in S : x <= y

DigitChars == <<"0", "1", "2", "3", "4", "5", "6", "7", "8", "9">>

\* String(n) of a non-negative integer: its decimal digits
RECURSIVE String(_)
String(n) ==
  IF n < 10 THEN <<DigitChars[n + 1]>>
  ELSE Append(String(n \div 10), DigitChars[(n % 10) + 1])

IsDigit(c) == \E i \in 1..Len(DigitChars) : DigitChars[i] = c

DigitValue(c) == (CHOOSE i \in 1..Len(DigitChars) : DigitChars[i] = c) - 1

\* A JavaScript number that parseInt can return: NaN, or an integer
NaN == [nan |-> TRUE, value |-> 0]

Num(n) == [nan |-> FALSE, value |-> n]

\* String(x) of a parseInt result
NumString(x) == IF x.nan THEN <<"N", "a", "N">> ELSE String(x.value)

RECURSIVE parseDigits(_, _)
parseDigits(s, acc) ==
  IF s = <<>> \/ ~IsDigit(Head(s)) THEN acc
  ELSE parseDigits(Tail(s), acc * 10 + DigitValue(Head(s)))

\* parseInt(s, 10): leading whitespace is skipped, a sign is read, then the
\* value of the leading run of digits; NaN when there is no digit there
parseInt(s) ==
  LET nonSpace == {i \in 1..Len(s) : ~IsSpace(s[i])}
      t == IF nonSpace = {} THEN <<>> ELSE SubSeq(s, Min(nonSpace), Len(s))
      signed == t # <<>> /\ Head(t) \in {"+", "-"}
      digits == IF signed THEN Tail(t) ELSE t
  IN IF digits = <<>> \/ ~IsDigit(Head(digits)) THEN NaN
     ELSE IF signed /\ Head(t) = "-" THEN Num(0 - parseDigits(digits, 0))
     ELSE Num(parseDigits(digits, 0))

\* A Float32Array embedding: its length and its first two components (every
\* other component is zero); the vectors used are unit vectors, so the cosine
\* of two of them is their dot product.
Vec(dim, x, y) == [dim |-> dim, v |-> <<x, y>>]

Cosine(a, b) == a.v[1] * b.v[1] + a.v[2] * b.v[2]

\* vec0 distance_metric=cosine / 'vector.similarity_function': 'cosine'
CosineDistance(a, b) == 1 - Cosine(a, b)

Layers == {"project", "global"}

Providers == {"sqlite", "neo4j"}

\* ---------------------------------------------------------------------------
\* One physical store: the tables of db.ts (the graph-native backend keeps the
\* same model as labelled nodes whose embedding is a node property).
\*   meta              value of the 'embedding_dim' row, <<>> when absent
\*   vec_dim           declared dimension of the vector tables / indexes, 0 before creation
\*   entities          rows [id, name] in insertion order
\*   entity_embeddings rows [rowid, embedding]
\*   facts             rows [id, subject_id, predicate, object_id, content, context, source]
\*   fact_embeddings   rows [rowid, embedding]
\*   scope             rows [fact_id, scope_candidate] (the candidate tag of a fact)
\* ---------------------------------------------------------------------------

EmptyStore ==
  [ meta |-> <<>>, vec_dim |-> 0,
    entities |-> <<>>, entity_embeddings |-> {},
    facts |-> <<>>, fact_embeddings |-> {},
    scope |-> {} ]

\* INTEGER PRIMARY KEY AUTOINCREMENT: one more than the largest rowid (no row is ever deleted)
NextRowid(rows) == IF rows = <<>> THEN 1 ELSE Max({rows[i].id : i \in DOMAIN rows}) + 1

\* Neo4j id(n): entity and fact nodes share one id space, counted from 0
NextNodeId(st) == Len(st.entities) + Len(st.facts)

EntityByName(st, name) == CHOOSE e \in Range(st.entities) : e.name = name

EntityById(st, id) == CHOOSE e \in Range(st.entities) : e.id = id

HasEntityNamed(st, name) == \E e \in Range(st.entities) : e.name = name

HasEntityId(st, id) == \E e \in Range(st.entities) : e.id = id

\* mutant of sqliteFindOrCreateEntity: a plain INSERT on a table without the
\* UNIQUE constraint, and the id of the newest row is returned
sqliteFindOrCreateEntityInsert(st, name, embedding) ==
  LET id == NextRowid(st.entities)
      st1 == [st EXCEPT !.entities = Append(st.entities, [id |-> id, name |-> name])]
  IN IF embedding.dim # st.vec_dim
       THEN [st |-> st1, status |-> "error", id |-> 0]
       ELSE [st |-> [st1 EXCEPT !.entity_embeddings =
                            st.entity_embeddings \cup {[rowid |-> id, embedding |-> embedding]}],
             status |-> "ok", id |-> id]

\* db.ts findOrCreateEntity: INSERT OR IGNORE, SELECT id, DELETE embedding,
\* INSERT embedding. Each statement commits on its own; vec0 rejects a vector
\* whose length is not the declared one, after the DELETE has been done.
sqliteFindOrCreateEntity(st, name, embedding) ==
  LET inserted == IF HasEntityNamed(st, name) THEN st.entities
                  ELSE Append(st.entities, [id |-> NextRowid(st.entities), name |-> name])
      id == (CHOOSE e \in Range(inserted) : e.name = name).id
      deleted == {r \in st.entity_embeddings : r.rowid # id}
      st1 == [st EXCEPT !.entities = inserted, !.entity_embeddings = deleted]
  IN IF embedding.dim # st.vec_dim
       THEN [st |-> st1, status |-> "error", id |-> 0]
       ELSE [st |-> [st1 EXCEPT !.entity_embeddings =
                            deleted \cup {[rowid |-> id, embedding |-> embedding]}],
             status |-> "ok", id |-> id]

\* neo4j.ts findOrCreateEntity: MERGE on the name, the embedding property is
\* set ON CREATE and ON MATCH.
neo4jFindOrCreateEntity(st, name, embedding) ==
  LET inserted == IF HasEntityNamed(st, name) THEN st.entities
                  ELSE Append(st.entities, [id |-> NextNodeId(st), name |-> name])
      id == (CHOOSE e \in Range(inserted) : e.name = name).id
  IN [st |-> [st EXCEPT !.entities = inserted,
                        !.entity_embeddings =
                            {r \in st.entity_embeddings : r.rowid # id}
                            \cup {[rowid |-> id, embedding |-> embedding]}],
      status |-> "ok", id |-> id]

\* StoreFact parameters: subjectId, predicate, objectId, content, context,
\* source, embedding and scopeCandidate ("global", "project", "null", or
\* "undefined" when the caller gives none)
FactRow(id, params) ==
  [ id |-> id, subject_id |-> params.subjectId, predicate |-> params.predicate,
    object_id |-> params.objectId, content |-> params.content,
    context |-> params.context, source |-> params.source ]

\* mutant of sqliteStoreFact: the foreign keys are not enforced
sqliteStoreFactNoForeignKeys(st, params) ==
  LET factId == NextRowid(st.facts)
      st1 == [st EXCEPT !.facts = Append(st.facts, FactRow(factId, params))]
  IN IF params.embedding.dim # st.vec_dim
       THEN [st |-> st1, status |-> "error", id |-> factId, row |-> TRUE]
       ELSE [st |-> [st1 EXCEPT !.fact_embeddings =
                            st.fact_embeddings
                            \cup {[rowid |-> factId, embedding |-> params.embedding]}],
             status |-> "ok", id |-> factId, row |-> TRUE]

\* db.ts storeFact: INSERT INTO facts (foreign_keys = ON rejects a subject_id
\* or object_id that is no entity id), then INSERT INTO fact_embeddings, which
\* rejects a vector of the wrong length after the fact row is committed.
sqliteStoreFact(st, params) ==
  IF ~(HasEntityId(st, params.subjectId) /\ HasEntityId(st, params.objectId))
    THEN [st |-> st, status |-> "error", id |-> 0, row |-> FALSE]
  ELSE
    LET factId == NextRowid(st.facts)
        st1 == [st EXCEPT !.facts = Append(st.facts, FactRow(factId, params))]
    IN IF params.embedding.dim # st.vec_dim
         THEN [st |-> st1, status |-> "error", id |-> factId, row |-> TRUE]
         ELSE [st |-> [st1 EXCEPT !.fact_embeddings =
                              st.fact_embeddings
                              \cup {[rowid |-> factId, embedding |-> params.embedding]}],
               status |-> "ok", id |-> factId, row |-> TRUE]

\* neo4j.ts storeFact: both MATCH clauses must bind an Entity node, else the
\* query creates nothing and returns no record, and record!.get throws.
neo4jStoreFact(st, params) ==
  IF ~(HasEntityId(st, params.subjectId) /\ HasEntityId(st, params.objectId))
    THEN [st |-> st, status |-> "error", id |-> 0, row |-> FALSE]
  ELSE
    LET factId == NextNodeId(st)
    IN [st |-> [st EXCEPT !.facts = Append(st.facts, FactRow(factId, params)),
                          !.fact_embeddings =
                              st.fact_embeddings
                              \cup {[rowid |-> factId, embedding |-> params.embedding]}],
        status |-> "ok", id |-> factId, row |-> TRUE]

\* The candidate tag stored with a fact row when the row is written
\* (null, or no tag at all, is stored as "none").
setScopeCandidate(st, factId, scopeCandidate) ==
  LET tag == IF scopeCandidate \in {"null", "undefined"} THEN "none" ELSE scopeCandidate
  IN [st EXCEPT !.scope = {r \in st.scope : r.fact_id # factId}
                          \cup {[fact_id |-> factId, scope_candidate |-> tag]}]

ScopeOf(st, factId) == (CHOOSE r \in st.scope : r.fact_id = factId).scope_candidate

\* StorageBackend.findOrCreateEntity of a store of the given provider
backendFindOrCreateEntity(kind, st, name, embedding) ==
  IF kind = "neo4j" THEN neo4jFindOrCreateEntity(st, name, embedding)
  ELSE sqliteFindOrCreateEntity(st, name, embedding)

\* mutant of backendStoreFact: a fact with the same triple is replaced
backendStoreFactUpsert(kind, st, params) ==
  LET same(f) == /\ f.subject_id = params.subjectId
                 /\ f.predicate = params.predicate
                 /\ f.object_id = params.objectId
      kept == SelectSeq(st.facts, LAMBDA f : ~same(f))
      r == IF kind = "neo4j" THEN neo4jStoreFact([st EXCEPT !.facts = kept], params)
           ELSE sqliteStoreFact([st EXCEPT !.facts = kept], params)
  IN IF r.row THEN [r EXCEPT !.st = setScopeCandidate(r.st, r.id, params.scopeCandidate)]
     ELSE r

\* StorageBackend.storeFact of a store of the given provider; the candidate
\* tag params.scopeCandidate is written with the row.
backendStoreFact(kind, st, params) ==
  LET r == IF kind = "neo4j" THEN neo4jStoreFact(st, params)
           ELSE sqliteStoreFact(st, params)
  IN IF r.row THEN [r EXCEPT !.st = setScopeCandidate(r.st, r.id, params.scopeCandidate)]
     ELSE r

\* StorageBackend.getCandidateFacts: the facts whose stored tag is scope, in
\* id order, with the names of their entities
RECURSIVE CandidateRows(_, _, _)
CandidateRows(st, positions, scope) ==
  IF positions = {} THEN <<>>
  ELSE LET k == Min(positions)
           f == st.facts[k]
       IN <<[ factId |-> f.id, subject |-> EntityById(st, f.subject_id).name,
              predicate |-> f.predicate, object |-> EntityById(st, f.object_id).name,
              content |-> f.content, context |-> f.context, source |-> f.source,
              scopeCandidate |-> scope ]>>
          \o CandidateRows(st, positions \ {k}, scope)

getCandidateFacts(st, scope) ==
  CandidateRows(st, {k \in DOMAIN st.facts : ScopeOf(st, st.facts[k].id) = scope}, scope)

\* StorageBackend.updateFactScope: the stored tag of one fact is replaced
updateFactScope(st, factId, scope) ==
  IF \E r \in st.scope : r.fact_id = factId
    THEN setScopeCandidate(st, factId, scope)
    ELSE st

\* ---------------------------------------------------------------------------
\* Graph traversal
\* ---------------------------------------------------------------------------

\* db.ts fuzzyFindEntity: LOWER(name) LIKE '%' || LOWER(?) || '%' ORDER BY
\* LENGTH(name) LIMIT 1. The rows the statement may return: which of several
\* names of the least length comes first is left to the engine.
sqliteFuzzyFindEntity(st, query) ==
  LET pattern == <<"%">> \o toLowerCase(query) \o <<"%">>
      matching == {e \in Range(st.entities) : Like(pattern, toLowerCase(e.name))}
  IN {e \in matching : \A o \in matching : Len(e.name) <= Len(o.name)}

\* neo4j.ts graphTraverse, first query: toLower(e.name) CONTAINS toLower($name)
\* ORDER BY size(e.name) LIMIT 1
neo4jFuzzyFindEntity(st, query) ==
  LET matching == {e \in Range(st.entities) :
                     Contains(toLowerCase(e.name), toLowerCase(query))}
  IN {e \in matching : \A o \in matching : Len(e.name) <= Len(o.name)}

backendFuzzyFindEntity(kind, st, query) ==
  IF kind = "neo4j" THEN neo4jFuzzyFindEntity(st, query)
  ELSE sqliteFuzzyFindEntity(st, query)

\* mutant of cteGraph: only the subject -> object direction is followed
RECURSIVE cteGraphForwardOnly(_, _, _)
cteGraphForwardOnly(st, rows, depth) ==
  LET viaSubject ==
        UNION { { <<f.object_id, g[2] + 1>> :
                    f \in {f \in Range(st.facts) : f.subject_id = g[1]} } :
                g \in {g \in rows : g[2] < depth} }
      next == rows \cup viaSubject
  IN IF next = rows THEN rows ELSE cteGraphForwardOnly(st, next, depth)

\* The recursive common table expression graph(entity_id, depth) of db.ts:
\* rows are added (UNION drops duplicates) until no new row appears.
RECURSIVE cteGraph(_, _, _)
cteGraph(st, rows, depth) ==
  LET viaSubject ==
        UNION { { <<f.object_id, g[2] + 1>> :
                    f \in {f \in Range(st.facts) : f.subject_id = g[1]} } :
                g \in {g \in rows : g[2] < depth} }
      viaObject ==
        UNION { { <<f.subject_id, g[2] + 1>> :
                    f \in {f \in Range(st.facts) : f.object_id = g[1]} } :
                g \in {g \in rows : g[2] < depth} }
      next == rows \cup viaSubject \cup viaObject
  IN IF next = rows THEN rows ELSE cteGraph(st, next, depth)

\* A fact row as a traversal returns it: names in place of ids
GraphFact(st, f) ==
  [ subject |-> EntityById(st, f.subject_id).name, predicate |-> f.predicate,
    object |-> EntityById(st, f.object_id).name, fact |-> f.content ]

\* the fact rows at the given positions, newest first (ORDER BY created_at DESC)
RECURSIVE FactsNewestFirst(_, _)
FactsNewestFirst(st, positions) ==
  IF positions = {} THEN <<>>
  ELSE LET k == Max(positions)
       IN <<GraphFact(st, st.facts[k])>> \o FactsNewestFirst(st, positions \ {k})

\* db.ts graphTraverse after the entity is resolved to match
sqliteGraphTraverse(st, match, depth) ==
  LET startId == match.id
      graph == cteGraph(st, {<<startId, 0>>}, depth)
      entityRows == {e.name : e \in {e \in Range(st.entities) :
                               e.id # startId /\ \E g \in graph : g[1] = e.id}}
      allNames == {match.name} \cup entityRows
      positions == {k \in DOMAIN st.facts :
                      \/ EntityById(st, st.facts[k].subject_id).name \in allNames
                      \/ EntityById(st, st.facts[k].object_id).name \in allNames}
  IN [found |-> TRUE, matchedName |-> match.name, entities |-> entityRows,
      facts |-> FactsNewestFirst(st, positions)]

\* The relationships of the graph-native model: each fact node f has one
\* SUBJECT_OF relationship from its subject and one OBJECT_IS relationship to
\* its object.
Relationships(st) ==
  UNION { { [type |-> "SUBJECT_OF", from |-> f.subject_id, to |-> f.id],
            [type |-> "OBJECT_IS", from |-> f.id, to |-> f.object_id] } :
          f \in Range(st.facts) }

\* Variable-length pattern -[:SUBJECT_OF|OBJECT_IS*1..n]- : undirected, no
\* relationship used twice in one path. reached collects [node, dist].
RECURSIVE cypherPaths(_, _, _, _, _)
cypherPaths(st, frontier, len, maxLen, reached) ==
  IF len >= maxLen \/ frontier = {} THEN reached
  ELSE
    LET step(t) ==
          { [node |-> IF r.from = t.node THEN r.to ELSE r.from,
             used |-> t.used \cup {r}] :
            r \in {r \in Relationships(st) \ t.used : r.from = t.node \/ r.to = t.node} }
        next == UNION {step(t) : t \in frontier}
    IN cypherPaths(st, next, len + 1, maxLen,
                   reached \cup {[node |-> t.node, dist |-> len + 1] : t \in next})

\* the fact rows at the given positions, nearest first (ORDER BY dist)
RECURSIVE FactsNearestFirst(_, _, _)
FactsNearestFirst(st, positions, dist) ==
  IF positions = {} THEN <<>>
  ELSE LET k == CHOOSE k \in positions :
                  \A o \in positions :
                    \/ dist[k] < dist[o]
                    \/ (dist[k] = dist[o] /\ k <= o)
       IN <<GraphFact(st, st.facts[k])>> \o FactsNearestFirst(st, positions \ {k}, dist)

\* neo4j.ts graphTraverse after the entity is resolved to match
neo4jGraphTraverse(st, match, depth) ==
  LET reached == cypherPaths(st, {[node |-> match.id, used |-> {}]}, 0, depth * 2, {})
      nodes == {r.node : r \in reached}
      entities == {e.name : e \in {e \in Range(st.entities) :
                             e.id \in nodes /\ e.name # match.name}}
      positions == {k \in DOMAIN st.facts : st.facts[k].id \in nodes}
      dist == [k \in positions |->
                 Min({r.dist : r \in {r \in reached : r.node = st.facts[k].id}})]
  IN [found |-> TRUE, matchedName |-> match.name, entities |-> entities,
      facts |-> FactsNearestFirst(st, positions, dist)]

\* the null result of graphTraverse
NotFound == [found |-> FALSE, matchedName |-> <<>>, entities |-> {}, facts |-> <<>>]

\* StorageBackend.graphTraverse, given which of the equally short matching
\* entities the engine returned first
backendGraphTraverse(kind, st, match, depth) ==
  IF kind = "neo4j" THEN neo4jGraphTraverse(st, match, depth)
  ELSE sqliteGraphTraverse(st, match, depth)

\* ---------------------------------------------------------------------------
\* Opening a store
\* ---------------------------------------------------------------------------

\* config.ts getConfig().embeddingDim of the built-in model
DefaultEmbeddingDim == 384

\* Embedding dimensions of the supported models (init.ts OLLAMA_MODELS) and
\* of the built-in one
EmbeddingDims == {384, 768, 1024}

NoMessage == [created_with |-> <<>>, current_config |-> <<>>, use_embedding_dim |-> <<>>]

\* mutant of initDb: the persisted dimension is not compared
initDbNoCheck(st, embeddingDim) ==
  LET withTables(s) == [s EXCEPT !.vec_dim = IF s.vec_dim = 0 THEN embeddingDim ELSE s.vec_dim]
  IN IF st.meta # <<>>
       THEN [st |-> withTables(st), status |-> "ok", message |-> NoMessage]
       ELSE [st |-> withTables([st EXCEPT !.meta = String(embeddingDim)]),
             status |-> "ok", message |-> NoMessage]

\* db.ts initDb: compares the persisted 'embedding_dim' with the configured
\* dimension, throws on a mismatch, records the dimension when none is
\* persisted, then creates the vector tables unless they exist.
initDb(st, embeddingDim) ==
  LET storedDim == st.meta
      withTables(s) == [s EXCEPT !.vec_dim = IF s.vec_dim = 0 THEN embeddingDim ELSE s.vec_dim]
  IN IF storedDim # <<>>
       THEN LET existing == parseInt(storedDim)
            IN IF existing # Num(embeddingDim)
                 THEN [st |-> st, status |-> "error",
                       message |-> [created_with |-> NumString(existing),
                                    current_config |-> String(embeddingDim),
                                    use_embedding_dim |-> NumString(existing)]]
                 ELSE [st |-> withTables(st), status |-> "ok", message |-> NoMessage]
       ELSE [st |-> withTables([st EXCEPT !.meta = String(embeddingDim)]),
             status |-> "ok", message |-> NoMessage]

\* neo4j.ts ensureSchema: CREATE VECTOR INDEX ... IF NOT EXISTS with the
\* configured dimension; nothing is compared and nothing is thrown.
ensureSchema(st, dim) ==
  [st |-> [st EXCEPT !.vec_dim = IF st.vec_dim = 0 THEN dim ELSE st.vec_dim],
   status |-> "ok", message |-> NoMessage]

\* backend-factory.ts createBackend: the store of one provider, opened
openBackend(kind, st, dim) ==
  IF kind = "neo4j" THEN ensureSchema(st, dim) ELSE initDb(st, dim)

\* ---------------------------------------------------------------------------
\* Vector search
\* ---------------------------------------------------------------------------

\* Twice the score a backend reports for a stored vector e and a query q:
\* db.ts knnSearch gives 1.0 - distance, the cosine; the Neo4j vector index
\* gives the cosine similarity normalised to [0, 1], (1 + cosine) / 2.
ScoreTimes2(kind, q, e) ==
  IF kind = "neo4j" THEN 1 + Cosine(q, e) ELSE 2 * (1 - CosineDistance(q, e))

\* the sequences that list every element of the finite set S once
RECURSIVE Orderings(_)
Orderings(S) ==
  IF S = {} THEN {<<>>}
  ELSE UNION { {<<x>> \o rest : rest \in Orderings(S \ {x})} : x \in S }

\* A search result row: the fact joined with the names of its entities
SearchRow(kind, st, q, e) ==
  LET f == CHOOSE f \in Range(st.facts) : f.id = e.rowid
  IN [ subject |-> EntityById(st, f.subject_id).name, predicate |-> f.predicate,
       object |-> EntityById(st, f.object_id).name, fact |-> f.content,
       context |-> f.context, source |-> f.source,
       score |-> ScoreTimes2(kind, q, e.embedding), sourceLayer |-> "undefined" ]

\* StorageBackend.searchFacts(embedding, limit): the k nearest indexed fact
\* vectors, nearest first. Every list the engine may return: rows of equal
\* distance come in any order, and any of them may be the ones cut off.
\* Only vectors of the declared dimension are indexed; a query of another
\* dimension is rejected.
backendSearchFacts(kind, st, q, limit) ==
  IF q.dim # st.vec_dim THEN {[status |-> "error", rows |-> <<>>]}
  ELSE
    LET indexed == {e \in st.fact_embeddings :
                      /\ e.embedding.dim = st.vec_dim
                      /\ \E f \in Range(st.facts) : f.id = e.rowid}
        k == IF Cardinality(indexed) < limit THEN Cardinality(indexed) ELSE limit
        sc(e) == ScoreTimes2(kind, q, e.embedding)
        chosen == {T \in SUBSET indexed :
                     /\ Cardinality(T) = k
                     /\ \A x \in T, y \in indexed \ T : sc(x) >= sc(y)}
        sorted(T) == {o \in Orderings(T) :
                        \A i \in 1..(Len(o) - 1) : sc(o[i]) >= sc(o[i + 1])}
    IN { [status |-> "ok", rows |-> [i \in 1..Len(o) |-> SearchRow(kind, st, q, o[i])]] :
         o \in UNION {sorted(T) : T \in chosen} }

\* ---------------------------------------------------------------------------
\* Dual-layer merge coordinator (dual.ts createDualBackend); ss is the pair
\* of stores, kinds the provider of each
\* ---------------------------------------------------------------------------

\* mutant of dualFindOrCreateEntity: the entity is created in both layers
dualFindOrCreateEntityBoth(kinds, ss, name, embedding) ==
  LET r == backendFindOrCreateEntity(kinds["project"], ss["project"], name, embedding)
      g == backendFindOrCreateEntity(kinds["global"], ss["global"], name, embedding)
  IN [stores |-> [ss EXCEPT !["project"] = r.st, !["global"] = g.st],
      status |-> r.status, id |-> r.id]

dualFindOrCreateEntity(kinds, ss, name, embedding) ==
  LET r == backendFindOrCreateEntity(kinds["project"], ss["project"], name, embedding)
  IN [stores |-> [ss EXCEPT !["project"] = r.st], status |-> r.status, id |-> r.id]

\* params.scopeCandidate ?? classifyScope(params.predicate): ?? takes its
\* right-hand side when the left one is null or undefined
dualScopeCandidate(params) ==
  IF params.scopeCandidate \in {"null", "undefined"}
    THEN classifyScope(params.predicate)
    ELSE params.scopeCandidate

dualStoreFact(kinds, ss, params) ==
  LET scopeCandidate == dualScopeCandidate(params)
      r == backendStoreFact(kinds["project"], ss["project"],
                            [params EXCEPT !.scopeCandidate = scopeCandidate])
  IN [stores |-> [ss EXCEPT !["project"] = r.st], status |-> r.status, id |-> r.id]

\* `${r.subject}|${r.predicate}|${r.object}`
TripleKey(r) == r.subject \o <<"|">> \o r.predicate \o <<"|">> \o r.object

\* Array.prototype.sort((a, b) => b.score - a.score): stable, descending
RECURSIVE sortByScoreDesc(_)
sortByScoreDesc(rows) ==
  IF rows = <<>> THEN <<>>
  ELSE LET init == sortByScoreDesc(SubSeq(rows, 1, Len(rows) - 1))
           x == rows[Len(rows)]
           before == {i \in 1..Len(init) : init[i].score >= x.score}
           n == IF before = {} THEN 0 ELSE Max(before)
       IN SubSeq(init, 1, n) \o <<x>> \o SubSeq(init, n + 1, Len(init))

\* the loop over the sorted rows that keeps the first row of each key
RECURSIVE dedupeByKey(_, _, _)
dedupeByKey(rows, seen, merged) ==
  IF rows = <<>> THEN merged
  ELSE LET r == Head(rows)
       IN IF TripleKey(r) \in seen THEN dedupeByKey(Tail(rows), seen, merged)
          ELSE dedupeByKey(Tail(rows), seen \cup {TripleKey(r)}, Append(merged, r))

Tagged(rows, layer) == [i \in 1..Len(rows) |-> [rows[i] EXCEPT !.sourceLayer = layer]]

\* mutant of dualMergeSearch: the rows are not sorted before the duplicates
\* are dropped, so the project copy of a triple always survives
dualMergeSearchUnsorted(projectResults, globalResults, limit) ==
  LET all == Tagged(projectResults, "project") \o Tagged(globalResults, "global")
      merged == sortByScoreDesc(dedupeByKey(all, {}, <<>>))
  IN SubSeq(merged, 1, IF Len(merged) < limit THEN Len(merged) ELSE limit)

\* dual.ts searchFacts after both layers answered: tag, concatenate, sort by
\* score, drop the later rows of each key, slice to the limit
dualMergeSearch(projectResults, globalResults, limit) ==
  LET all == sortByScoreDesc(Tagged(projectResults, "project")
                             \o Tagged(globalResults, "global"))
      merged == dedupeByKey(all, {}, <<>>)
  IN SubSeq(merged, 1, IF Len(merged) < limit THEN Len(merged) ELSE limit)

\* dual.ts searchFacts: every outcome, given the lists the two layers may return
dualSearchFacts(kinds, ss, q, limit) ==
  { [ status |-> IF p.status = "ok" /\ g.status = "ok" THEN "ok" ELSE "error",
      projectResults |-> p.rows, globalResults |-> g.rows,
      rows |-> IF p.status = "ok" /\ g.status = "ok"
                 THEN dualMergeSearch(p.rows, g.rows, limit) ELSE <<>> ] :
    p \in backendSearchFacts(kinds["project"], ss["project"], q, limit),
    g \in backendSearchFacts(kinds["global"], ss["global"], q, limit) }

\* ---------------------------------------------------------------------------
\* Promotion workflow (promote.ts runPromote)
\* ---------------------------------------------------------------------------

\* String.prototype.split(sep) for a one-character separator
RECURSIVE split(_, _)
split(s, sep) ==
  LET at == {i \in 1..Len(s) : s[i] = sep}
  IN IF at = {} THEN <<s>>
     ELSE <<SubSeq(s, 1, Min(at) - 1)>> \o split(SubSeq(s, Min(at) + 1, Len(s)), sep)

\* answer.split(",").map(s => parseInt(s.trim(), 10) - 1)
\*       .filter(n => !isNaN(n) && n >= 0 && n < candidates.length)
\* The indices are kept 0-based, as in the code.
parseSelection(answer, count) ==
  LET parts == split(answer, ",")
      mapped == [i \in 1..Len(parts) |->
                   LET n == parseInt(trim(parts[i]))
                   IN IF n.nan THEN NaN ELSE Num(n.value - 1)]
      valid == SelectSeq(mapped, LAMBDA n : ~n.nan /\ n.value >= 0 /\ n.value < count)
  IN [i \in 1..Len(valid) |-> valid[i].value]

\* What one loop step leaves behind: the global store as the call left it
globalStep(ss, r) ==
  [stores |-> [ss EXCEPT !["global"] = r.st],
   status |-> IF r.status = "ok" THEN "ok" ELSE "error"]

\* mutant of promoteStoreFact: the copy is written with the candidate's tag
promoteStoreFactTagged(kinds, ss, c, embed, subjectId, r2) ==
  IF r2.status # "ok" THEN globalStep(ss, r2)
  ELSE globalStep(ss, backendStoreFact(kinds["global"], r2.st,
                        [subjectId |-> subjectId, predicate |-> c.predicate,
                         objectId |-> r2.id, content |-> c.content,
                         context |-> c.context, source |-> c.source,
                         embedding |-> embed[c.content].vec,
                         scopeCandidate |-> "global"]))

\* await globalBackend.storeFact({subjectId, ..., embedding: factEmb}), reached
\* with the result r2 of the findOrCreateEntity of the object
promoteStoreFact(kinds, ss, c, embed, subjectId, r2) ==
  IF r2.status # "ok" THEN globalStep(ss, r2)
  ELSE globalStep(ss, backendStoreFact(kinds["global"], r2.st,
                        [subjectId |-> subjectId, predicate |-> c.predicate,
                         objectId |-> r2.id, content |-> c.content,
                         context |-> c.context, source |-> c.source,
                         embedding |-> embed[c.content].vec,
                         scopeCandidate |-> "undefined"]))

\* const objectId = await globalBackend.findOrCreateEntity(c.object, objectEmb),
\* reached with the result r1 of the findOrCreateEntity of the subject
promoteObject(kinds, ss, c, embed, r1) ==
  IF r1.status # "ok" THEN globalStep(ss, r1)
  ELSE promoteStoreFact(kinds, ss, c, embed, r1.id,
         backendFindOrCreateEntity(kinds["global"], r1.st, c.object, embed[c.object].vec))

\* The loop body for one candidate c up to the storeFact into global. embed
\* maps a text to [ok, vec]: the provider's answer for it, or its rejection.
\* The three embeddings are awaited together before any store call.
promoteIntoGlobal(kinds, ss, c, embed) ==
  IF ~(embed[c.subject].ok /\ embed[c.object].ok /\ embed[c.content].ok)
    THEN [stores |-> ss, status |-> "error"]
  ELSE promoteObject(kinds, ss, c, embed,
         backendFindOrCreateEntity(kinds["global"], ss["global"],
                                   c.subject, embed[c.subject].vec))

\* mutant of clearCandidateFlag: the promoted fact is moved, its project row
\* is deleted
clearCandidateFlagMove(r, c) ==
  IF r.status # "ok" THEN r
  ELSE [r EXCEPT !.stores =
          [r.stores EXCEPT !["project"] =
             [r.stores["project"] EXCEPT
                !.facts = SelectSeq(r.stores["project"].facts, LAMBDA f : f.id # c.factId)]]]

\* projectBackend.updateFactScope(c.factId, null), reached with the outcome r
\* of the writes to global
clearCandidateFlag(r, c) ==
  IF r.status # "ok" THEN r
  ELSE [r EXCEPT !.stores =
          [r.stores EXCEPT !["project"] =
             updateFactScope(r.stores["project"], c.factId, "null")]]

\* mutant of promoteOne: the candidate flag of the project fact is not cleared
promoteOneKeepFlag(kinds, ss, c, embed) == promoteIntoGlobal(kinds, ss, c, embed)

\* The whole loop body for one candidate
promoteOne(kinds, ss, c, embed) ==
  clearCandidateFlag(promoteIntoGlobal(kinds, ss, c, embed), c)

\* for (const idx of indices): a rejected step ends the run there. promoteNext
\* continues after the step whose outcome is r.
RECURSIVE promoteLoop(_, _, _, _, _, _)
RECURSIVE promoteNext(_, _, _, _, _, _)
promoteNext(kinds, candidates, indices, embed, promoted, r) ==
  IF r.status # "ok"
    THEN [stores |-> r.stores, status |-> "error", promoted |-> promoted]
    ELSE promoteLoop(kinds, r.stores, candidates, Tail(indices), embed, promoted + 1)

promoteLoop(kinds, ss, candidates, indices, embed, promoted) ==
  IF indices = <<>> THEN [stores |-> ss, status |-> "done", promoted |-> promoted]
  ELSE promoteNext(kinds, candidates, indices, embed, promoted,
                   promoteOne(kinds, ss, candidates[Head(indices) + 1], embed))

\* What a run leaves behind. status: "none" (no candidate), "cancelled",
\* "done" (the count is reported), "error" (the run was rejected).
promoteReport(r, candidates, indices) ==
  [stores |-> r.stores, status |-> r.status, promoted |-> r.promoted,
   candidates |-> candidates, indices |-> indices]

promoteQuiet(ss, status, candidates) ==
  [stores |-> ss, status |-> status, promoted |-> 0,
   candidates |-> candidates, indices |-> <<>>]

\* the run once the selected indices are known
promoteIndices(kinds, ss, embed, candidates, indices) ==
  IF indices = <<>> THEN promoteQuiet(ss, "cancelled", candidates)
  ELSE promoteReport(promoteLoop(kinds, ss, candidates, indices, embed, 0),
                     candidates, indices)

\* mutant of promoteAnswer: an empty answer selects every candidate
promoteAnswerEmptyIsAll(kinds, ss, embed, candidates, answer) ==
  IF candidates = <<>> THEN promoteQuiet(ss, "none", candidates)
  ELSE IF toLowerCase(answer) = <<"n">>
    THEN promoteQuiet(ss, "cancelled", candidates)
  ELSE promoteIndices(kinds, ss, embed, candidates,
         IF toLowerCase(answer) = <<"y">> \/ answer = <<>>
           THEN [i \in 1..Len(candidates) |-> i - 1]
           ELSE parseSelection(answer, Len(candidates)))

\* the run once the candidates are listed and the trimmed answer is read
promoteAnswer(kinds, ss, embed, candidates, answer) ==
  IF candidates = <<>> THEN promoteQuiet(ss, "none", candidates)
  ELSE IF toLowerCase(answer) = <<"n">> \/ answer = <<>>
    THEN promoteQuiet(ss, "cancelled", candidates)
  ELSE promoteIndices(kinds, ss, embed, candidates,
         IF toLowerCase(answer) = <<"y">>
           THEN [i \in 1..Len(candidates) |-> i - 1]
           ELSE parseSelection(answer, Len(candidates)))

\* runPromote with the operator's answer and the embedding provider's
\* behaviour during the run
runPromote(kinds, ss, rawAnswer, embed) ==
  promoteAnswer(kinds, ss, embed, getCandidateFacts(ss["project"], "global"),
                trim(rawAnswer))

\* ---------------------------------------------------------------------------
\* State
\*   stores    the persisted contents of the project and the global store
\*   provider  the storage provider configured for each layer
\*   handle    whether this process holds an open handle on the layer's store
\*   ret       the operation that ran last, with its arguments and its outcome
\*   returnedEntities  history: every [layer, name, id] findOrCreateEntity has returned
\*   returnedFacts     history: every [layer, id, params] storeFact has returned, in call order
\* ---------------------------------------------------------------------------

VARIABLES stores, provider, handle, ret, returnedEntities, returnedFacts

vars == <<stores, provider, handle, ret, returnedEntities, returnedFacts>>

NoRet == [op |-> "none"]

\* Both layers opened, with the default configuration, on fresh stores
OpenedStores(kinds) ==
  [l \in Layers |-> openBackend(kinds[l], EmptyStore, DefaultEmbeddingDim).st]

EmbeddingRows(st, id) == {r \in st.entity_embeddings : r.rowid = id}

\* A call of StorageBackend.findOrCreateEntity on the store of layer l
CallFindOrCreateEntity(l, name, embedding) ==
  LET r == backendFindOrCreateEntity(provider[l], stores[l], name, embedding)
  IN /\ handle[l]
     /\ stores' = [stores EXCEPT ![l] = r.st]
     /\ ret' = [op |-> "findOrCreateEntity", layer |-> l, status |-> r.status,
                id |-> r.id, name |-> name, embedding |-> embedding,
                replaced |-> IF HasEntityNamed(stores[l], name)
                               THEN EmbeddingRows(stores[l], EntityByName(stores[l], name).id)
                               ELSE {}]
     /\ returnedEntities' =
          IF r.status = "ok"
            THEN returnedEntities \cup {[layer |-> l, name |-> name, id |-> r.id]}
            ELSE returnedEntities
     /\ UNCHANGED <<provider, handle, returnedFacts>>

\* A call of StorageBackend.storeFact on the store of layer l
CallStoreFact(l, params) ==
  LET r == backendStoreFact(provider[l], stores[l], params)
  IN /\ handle[l]
     /\ stores' = [stores EXCEPT ![l] = r.st]
     /\ ret' = [op |-> "storeFact", layer |-> l, status |-> r.status,
                id |-> r.id, params |-> params]
     /\ returnedFacts' =
          IF r.status = "ok"
            THEN Append(returnedFacts, [layer |-> l, id |-> r.id, params |-> params])
            ELSE returnedFacts
     /\ UNCHANGED <<provider, handle, returnedEntities>>

\* ---------------------------------------------------------------------------
\* SpecStore: one store of either provider, called directly
\* ---------------------------------------------------------------------------

StoreMaxFacts == 2

StoreNames == { <<"a">>, <<"b">> }

StoreEntityVecs == { Vec(384, 1, 0), Vec(384, 0, 1), Vec(768, 1, 0) }

StoreFactVecs == { Vec(384, 1, 0) }

StorePredicates == { <<"u", "s", "e", "s">> }

StoreContents == { <<"c", "1">>, <<"c", "2">> }

\* the ids a caller can hold (of entities and of facts), and one that no node has
StoreIds(st) ==
  {e.id : e \in Range(st.entities)} \cup {f.id : f \in Range(st.facts)}
    \cup {Len(st.entities) + Len(st.facts) + 1}

StoreInit ==
  /\ provider \in [Layers -> Providers]
  /\ provider["global"] = "sqlite"
  /\ stores = OpenedStores(provider)
  /\ handle = [l \in Layers |-> TRUE]
  /\ ret = NoRet
  /\ returnedEntities = {}
  /\ returnedFacts = <<>>

StoreFindOrCreateEntity ==
  \E name \in StoreNames, embedding \in StoreEntityVecs :
    CallFindOrCreateEntity("project", name, embedding)

StoreStoreFact ==
  \E subjectId \in StoreIds(stores["project"]), objectId \in StoreIds(stores["project"]),
     predicate \in StorePredicates, content \in StoreContents,
     embedding \in StoreFactVecs :
    /\ Len(stores["project"].facts) < StoreMaxFacts
    /\ CallStoreFact("project",
         [subjectId |-> subjectId, predicate |-> predicate, objectId |-> objectId,
          content |-> content, context |-> <<>>, source |-> <<>>,
          embedding |-> embedding, scopeCandidate |-> "undefined"])

StoreNext == StoreFindOrCreateEntity \/ StoreStoreFact

SpecStore == StoreInit /\ [][StoreNext]_vars

\* C3: idempotent entity identity. In every store, all ids findOrCreateEntity
\* has ever returned for one name are the same id, the store holds exactly one
\* entity of that name, and after a call returns, the entity's only stored
\* embedding is the one just supplied (replaced, not merged).
C3_IdempotentEntityIdentity ==
  /\ \A r1 \in returnedEntities, r2 \in returnedEntities :
       (r1.layer = r2.layer /\ r1.name = r2.name) => r1.id = r2.id
  /\ \A r \in returnedEntities :
       /\ Cardinality({i \in DOMAIN stores[r.layer].entities :
                         stores[r.layer].entities[i].name = r.name}) = 1
       /\ EntityByName(stores[r.layer], r.name).id = r.id
  /\ (ret.op = "findOrCreateEntity" /\ ret.status = "ok") =>
       /\ [layer |-> ret.layer, name |-> ret.name, id |-> ret.id] \in returnedEntities
       /\ EmbeddingRows(stores[ret.layer], ret.id)
            = {[rowid |-> ret.id, embedding |-> ret.embedding]}

\* C3 witness: a second findOrCreateEntity of a name, made after a fact on the
\* entity was stored, has returned and replaced a different embedding.
C3_Witness ==
  /\ ret.op = "findOrCreateEntity"
  /\ ret.status = "ok"
  /\ \E old \in ret.replaced : old.embedding # ret.embedding
  /\ \E f \in Range(stores[ret.layer].facts) : f.subject_id = ret.id

FactsWithId(st, id) == {i \in DOMAIN st.facts : st.facts[i].id = id}

\* C4: append-only duplicates. Every two storeFact calls that returned gave
\* distinct fact ids, and each returned fact is still in the store, once, with
\* the triple and the content of its own call, and with its own embedding.
C4_AppendOnlyDuplicates ==
  /\ \A i \in DOMAIN returnedFacts, j \in DOMAIN returnedFacts :
       (i # j /\ returnedFacts[i].layer = returnedFacts[j].layer)
         => returnedFacts[i].id # returnedFacts[j].id
  /\ \A i \in DOMAIN returnedFacts :
       LET r == returnedFacts[i]
           st == stores[r.layer]
       IN /\ Cardinality(FactsWithId(st, r.id)) = 1
          /\ \A k \in FactsWithId(st, r.id) : st.facts[k] = FactRow(r.id, r.params)
          /\ {e \in st.fact_embeddings : e.rowid = r.id}
               = {[rowid |-> r.id, embedding |-> r.params.embedding]}

\* C4 witness: storeFact has returned twice for the same subject, predicate
\* and object, with two different contents.
C4_Witness ==
  \E i \in DOMAIN returnedFacts, j \in DOMAIN returnedFacts :
    /\ i < j
    /\ returnedFacts[i].layer = returnedFacts[j].layer
    /\ returnedFacts[i].params.subjectId = returnedFacts[j].params.subjectId
    /\ returnedFacts[i].params.predicate = returnedFacts[j].params.predicate
    /\ returnedFacts[i].params.objectId = returnedFacts[j].params.objectId
    /\ returnedFacts[i].params.content # returnedFacts[j].params.content

\* C5: referential integrity. A storeFact whose subjectId or objectId is not
\* the id of an entity of the store fails, returns no fact id, and leaves the
\* facts and the fact embeddings as they were, in both backends.
C5_ReferentialIntegrity ==
  [][ \A l \in Layers :
        ( /\ ret'.op = "storeFact"
          /\ ret'.layer = l
          /\ ~( /\ HasEntityId(stores[l], ret'.params.subjectId)
                /\ HasEntityId(stores[l], ret'.params.objectId) ) )
        => /\ ret'.status = "error"
           /\ ret'.id = 0
           /\ returnedFacts' = returnedFacts
           /\ stores'[l].facts = stores[l].facts
           /\ stores'[l].fact_embeddings = stores[l].fact_embeddings ]_vars

\* C5 witness: a storeFact naming an id that is no entity of a store that
\* already holds entities and a fact has failed.
C5_Witness ==
  /\ ret.op = "storeFact"
  /\ ret.status = "error"
  /\ ~HasEntityId(stores[ret.layer], ret.params.objectId)
  /\ HasEntityId(stores[ret.layer], ret.params.subjectId)
  /\ stores[ret.layer].facts # <<>>

\* ---------------------------------------------------------------------------
\* SpecGraph: one store of either provider behind the memory_store and
\* memory_graph tools
\* ---------------------------------------------------------------------------

\* tools/store.ts, memory_store handler on a single backend, after the three
\* embeddings were obtained: findOrCreateEntity of the subject, of the object,
\* then storeFact; a rejected call ends the handler there.
memoryStore(kind, st, args, embs) ==
  LET r1 == backendFindOrCreateEntity(kind, st, args.subject, embs.subject)
  IN IF r1.status # "ok" THEN [st |-> r1.st, status |-> "error"]
     ELSE
       LET r2 == backendFindOrCreateEntity(kind, r1.st, args.object, embs.object)
       IN IF r2.status # "ok" THEN [st |-> r2.st, status |-> "error"]
          ELSE
            LET r3 == backendStoreFact(kind, r2.st,
                        [subjectId |-> r1.id, predicate |-> args.predicate,
                         objectId |-> r2.id, content |-> args.fact,
                         context |-> args.context, source |-> args.source,
                         embedding |-> embs.fact, scopeCandidate |-> "undefined"])
            IN [st |-> r3.st, status |-> r3.status]

GraphMaxFacts == 3

GraphMaxDepth == 2

NameA == <<"b">>

NameB == <<"b", "s">>

NameC == <<"C", "d">>

NameD == <<"d", "_">>

NameE == <<"e">>

\* the subject -> object pairs the memory_store tool is called with
GraphEdges ==
  { <<NameA, NameB>>, <<NameB, NameC>>, <<NameC, NameD>>, <<NameA, NameA>> }

GraphQueries == { <<"b">>, <<"D">>, <<"e">>, <<"x">>, <<"b", "_">> }

GraphVec == Vec(384, 1, 0)

GraphInit ==
  /\ provider \in [Layers -> Providers]
  /\ provider["global"] = "sqlite"
  /\ stores = OpenedStores(provider)
  /\ handle = [l \in Layers |-> TRUE]
  /\ ret = NoRet
  /\ returnedEntities = {}
  /\ returnedFacts = <<>>

\* memory_store
GraphStore ==
  \E edge \in GraphEdges :
    LET args == [subject |-> edge[1], predicate |-> <<"u", "s", "e", "s">>,
                 object |-> edge[2], fact |-> <<"c", "1">>,
                 context |-> <<>>, source |-> <<>>]
        r == memoryStore(provider["project"], stores["project"], args,
                         [subject |-> GraphVec, object |-> GraphVec, fact |-> GraphVec])
    IN /\ Len(stores["project"].facts) < GraphMaxFacts
       /\ stores' = [stores EXCEPT !["project"] = r.st]
       /\ ret' = [op |-> "memory_store", layer |-> "project", status |-> r.status,
                  args |-> args]
       /\ UNCHANGED <<provider, handle, returnedEntities, returnedFacts>>

\* an entity that is created and never used in a fact
GraphLoneEntity ==
  LET r == backendFindOrCreateEntity(provider["project"], stores["project"], NameE, GraphVec)
  IN /\ ~HasEntityNamed(stores["project"], NameE)
     /\ stores' = [stores EXCEPT !["project"] = r.st]
     /\ ret' = [op |-> "findOrCreateEntity", layer |-> "project", status |-> r.status,
                id |-> r.id, name |-> NameE, embedding |-> GraphVec, replaced |-> {}]
     /\ UNCHANGED <<provider, handle, returnedEntities, returnedFacts>>

\* StorageBackend.graphTraverse(query, depth) on the store of layer l: the
\* possible results, one for each entity the fuzzy lookup may return
graphTraverseResults(kind, st, query, depth) ==
  LET matches == backendFuzzyFindEntity(kind, st, query)
  IN IF matches = {} THEN {NotFound}
     ELSE {backendGraphTraverse(kind, st, m, depth) : m \in matches}

\* memory_graph
GraphTraverse ==
  \E query \in GraphQueries, depth \in 1..GraphMaxDepth :
    \E result \in graphTraverseResults(provider["project"], stores["project"], query, depth) :
      /\ ret' = [op |-> "graphTraverse", layer |-> "project", query |-> query,
                 depth |-> depth, result |-> result]
      /\ UNCHANGED <<stores, provider, handle, returnedEntities, returnedFacts>>

GraphNext == GraphStore \/ GraphLoneEntity \/ GraphTraverse

SpecGraph == GraphInit /\ [][GraphNext]_vars

\* the entities one hop away from an entity, in either direction of a fact
Neighbours(st, id) ==
  {f.object_id : f \in {f \in Range(st.facts) : f.subject_id = id}}
    \cup {f.subject_id : f \in {f \in Range(st.facts) : f.object_id = id}}

\* the entities at most d hops away from s, s included
RECURSIVE WithinHops(_, _, _)
WithinHops(st, s, d) ==
  IF d = 0 THEN {s}
  ELSE LET w == WithinHops(st, s, d - 1)
       IN w \cup UNION {Neighbours(st, x) : x \in w}

NamesOf(st, ids) == {e.name : e \in {e \in Range(st.entities) : e.id \in ids}}

\* the facts of the store are exactly the chain A -> B -> C -> D
IsChain(st) ==
  /\ Len(st.facts) = 3
  /\ {<<EntityById(st, f.subject_id).name, EntityById(st, f.object_id).name>> :
        f \in Range(st.facts)}
       = {<<NameA, NameB>>, <<NameB, NameC>>, <<NameC, NameD>>}

\* C8: bounded traversal. graphTraverse from a resolved entity s with depth d
\* returns exactly the entities other than s within d hops of s, a hop taking
\* a fact in either direction; the set for d is within the set for d + 1; and
\* on the chain A -> B -> C -> D depths 1, 2, 3 from A give {B}, {B,C}, {B,C,D}.
C8_BoundedTraversal ==
  /\ (ret.op = "graphTraverse" /\ ret.result.found) =>
       LET st == stores[ret.layer]
           s == EntityByName(st, ret.result.matchedName)
       IN /\ ret.result.entities = NamesOf(st, WithinHops(st, s.id, ret.depth) \ {s.id})
          /\ ret.result.entities
               \subseteq backendGraphTraverse(provider[ret.layer], st, s, ret.depth + 1).entities
  /\ \A l \in Layers :
       IsChain(stores[l]) =>
         LET a == EntityByName(stores[l], NameA)
         IN /\ backendGraphTraverse(provider[l], stores[l], a, 1).entities = {NameB}
            /\ backendGraphTraverse(provider[l], stores[l], a, 2).entities = {NameB, NameC}
            /\ backendGraphTraverse(provider[l], stores[l], a, 3).entities
                 = {NameB, NameC, NameD}

\* C8 witness: on the chain A -> B -> C -> D, graphTraverse resolved to C with
\* depth 1 has returned {B, D}: one hop against and one hop along a fact.
C8_Witness ==
  /\ ret.op = "graphTraverse"
  /\ IsChain(stores[ret.layer])
  /\ ret.result.found
  /\ ret.result.matchedName = NameC
  /\ ret.depth = 1
  /\ ret.result.entities = {NameB, NameD}

\* C9: fuzzy resolution. graphTraverse resolves the query to a stored entity
\* whose name contains the query as a case-insensitive substring and is of
\* the least length among such names; it returns null exactly when no stored
\* name contains the query; and it returns a result with no connected entity
\* and no fact when the matched entity takes part in no fact.
C9_FuzzyResolution ==
  ret.op = "graphTraverse" =>
    LET st == stores[ret.layer]
        containing == {e \in Range(st.entities) :
                         Contains(toLowerCase(e.name), toLowerCase(ret.query))}
    IN /\ ret.result.found <=> containing # {}
       /\ ret.result.found =>
            /\ \E e \in containing :
                 /\ e.name = ret.result.matchedName
                 /\ \A o \in containing : Len(e.name) <= Len(o.name)
            /\ (\A f \in Range(st.facts) :
                  /\ EntityById(st, f.subject_id).name # ret.result.matchedName
                  /\ EntityById(st, f.object_id).name # ret.result.matchedName)
                 => (ret.result.entities = {} /\ ret.result.facts = <<>>)

\* ---------------------------------------------------------------------------
\* SpecDual: the merge coordinator over a project and a global store, and
\* the promote command
\* ---------------------------------------------------------------------------

DualMaxFacts == 2

DualMaxGlobalFacts == 2

DualMaxLimit == 2

NameX == <<"X">>

NameY == <<"Y">>

DualNames == {NameX, NameY}

DualContents == { <<"c", "1">> }

DualPredicates == { <<"u", "s", "e", "s">>, <<"t", "o", "d", "o">> }

DualScopes == {"undefined", "global"}

DualVec == Vec(384, 1, 0)

DualQueries == { Vec(384, 1, 0), Vec(384, 0, 1) }

\* what the operator may type at the prompt
DualAnswers ==
  { <<"y">>, <<"N">>, <<"1">>, <<"x", ",", "3">>, <<" ", "2", " ", ",", "1">> }

EmbedAll(v) == [t \in DualNames \cup DualContents |-> [ok |-> TRUE, vec |-> v]]

\* how the embedding provider behaves during one promote run
DualEmbedFns ==
  { EmbedAll(Vec(384, 1, 0)), EmbedAll(Vec(384, 0, 1)),
    [EmbedAll(Vec(384, 1, 0)) EXCEPT ![NameY] = [ok |-> FALSE, vec |-> Vec(384, 1, 0)]] }

DualInit ==
  /\ provider \in [Layers -> Providers]
  /\ stores = OpenedStores(provider)
  /\ handle = [l \in Layers |-> TRUE]
  /\ ret = NoRet
  /\ returnedEntities = {}
  /\ returnedFacts = <<>>

\* coordinator.findOrCreateEntity
DualFindOrCreateEntity ==
  \E name \in DualNames :
    LET r == dualFindOrCreateEntity(provider, stores, name, DualVec)
    IN /\ stores' = r.stores
       /\ ret' = [op |-> "dual.findOrCreateEntity", status |-> r.status, id |-> r.id,
                  name |-> name]
       /\ UNCHANGED <<provider, handle, returnedEntities, returnedFacts>>

\* coordinator.storeFact
DualStoreFact ==
  \E s \in Range(stores["project"].entities), o \in Range(stores["project"].entities),
     predicate \in DualPredicates, content \in DualContents, scope \in DualScopes :
    LET params == [subjectId |-> s.id, predicate |-> predicate, objectId |-> o.id,
                   content |-> content, context |-> <<>>, source |-> <<>>,
                   embedding |-> DualVec, scopeCandidate |-> scope]
        r == dualStoreFact(provider, stores, params)
    IN /\ s.name = NameX
       /\ o.name = NameY
       /\ Len(stores["project"].facts) < DualMaxFacts
       /\ stores' = r.stores
       /\ ret' = [op |-> "dual.storeFact", status |-> r.status, id |-> r.id,
                  params |-> params]
       /\ UNCHANGED <<provider, handle, returnedEntities, returnedFacts>>

\* coordinator.searchFacts
DualSearchFacts ==
  \E q \in DualQueries, limit \in 1..DualMaxLimit :
    \E r \in dualSearchFacts(provider, stores, q, limit) :
      /\ ret' = [op |-> "dual.searchFacts", status |-> r.status, query |-> q,
                 limit |-> limit, projectResults |-> r.projectResults,
                 globalResults |-> r.globalResults, rows |-> r.rows]
      /\ UNCHANGED <<stores, provider, handle, returnedEntities, returnedFacts>>

\* the promote command
DualPromote ==
  \E answer \in DualAnswers, embed \in DualEmbedFns :
    \E r \in {runPromote(provider, stores, answer, embed)} :
       /\ Len(stores["global"].facts) < DualMaxGlobalFacts
       /\ stores' = r.stores
       /\ ret' = [op |-> "promote", status |-> r.status, answer |-> answer,
                  candidates |-> r.candidates, indices |-> r.indices,
                  promoted |-> r.promoted]
       /\ UNCHANGED <<provider, handle, returnedEntities, returnedFacts>>

DualNext == DualFindOrCreateEntity \/ DualStoreFact \/ DualSearchFacts \/ DualPromote

SpecDual == DualInit /\ [][DualNext]_vars

SameFactAs(st, f, c) ==
  /\ EntityById(st, f.subject_id).name = c.subject
  /\ f.predicate = c.predicate
  /\ EntityById(st, f.object_id).name = c.object
  /\ f.content = c.content
  /\ f.context = c.context
  /\ f.source = c.source

\* C1: promotion effect. When a promote run completes, then for every selected
\* candidate c (a project fact whose stored tag was global): the global layer
\* holds a fact that was not there before, with c's subject name, predicate,
\* object name, content, context and source; c's tag in the project layer is
\* none and getCandidateFacts("global") no longer lists c; and the project
\* layer still holds c's fact, its entities and its embedding as they were.
C1_PromotionEffect ==
  [][ (ret'.op = "promote" /\ ret'.status = "done") =>
        \A k \in Range(ret'.indices) :
          LET c == ret'.candidates[k + 1]
              g == stores'["global"]
              p == stores'["project"]
              before == stores["project"]
          IN /\ ScopeOf(before, c.factId) = "global"
             /\ \E f \in Range(g.facts) :
                  /\ \A old \in Range(stores["global"].facts) : old.id # f.id
                  /\ SameFactAs(g, f, c)
             /\ ScopeOf(p, c.factId) = "none"
             /\ \A d \in Range(getCandidateFacts(p, "global")) : d.factId # c.factId
             /\ \E f \in Range(p.facts) :
                  /\ f.id = c.factId
                  /\ f \in Range(before.facts)
                  /\ SameFactAs(p, f, c)
             /\ p.facts = before.facts
             /\ p.entities = before.entities
             /\ p.fact_embeddings = before.fact_embeddings
    ]_vars

\* C1 witness: a promote run has completed in which the operator selected one
\* of two candidates; the global layer holds its copy, the project layer
\* still holds both facts and lists only the other one as a candidate.
C1_Witness ==
  /\ ret.op = "promote"
  /\ ret.status = "done"
  /\ ret.promoted = 1
  /\ Len(ret.candidates) = 2
  /\ Len(stores["project"].facts) = 2
  /\ Len(getCandidateFacts(stores["project"], "global")) = 1
  /\ \E f \in Range(stores["global"].facts) :
       SameFactAs(stores["global"], f, ret.candidates[ret.indices[1] + 1])

Triple(r) == <<r.subject, r.predicate, r.object>>

Copies(rows, r) == {x \in Range(rows) : Triple(x) = Triple(r)}

\* C2: merge dedup. The list the coordinator's searchFacts returns holds no
\* two rows with the same (subject, predicate, object); and when the triple of
\* a returned row occurs in both layers' result lists with different scores,
\* the returned row carries the highest of those scores.
C2_MergeDedup ==
  (ret.op = "dual.searchFacts" /\ ret.status = "ok") =>
    /\ \A i \in DOMAIN ret.rows, j \in DOMAIN ret.rows :
         i # j => Triple(ret.rows[i]) # Triple(ret.rows[j])
    /\ \A i \in DOMAIN ret.rows :
         LET r == ret.rows[i]
             P == Copies(ret.projectResults, r)
             G == Copies(ret.globalResults, r)
         IN (\E x \in P, y \in G : x.score # y.score)
              => r.score = Max({x.score : x \in P \cup G})

\* C2 witness: a search has returned a triple that both layers hold with
\* different scores, and the copy that survived is the global one.
C2_Witness ==
  /\ ret.op = "dual.searchFacts"
  /\ ret.status = "ok"
  /\ \E i \in DOMAIN ret.rows :
       /\ ret.rows[i].sourceLayer = "global"
       /\ \E x \in Copies(ret.projectResults, ret.rows[i]) :
            x.score < ret.rows[i].score

GlobalData(ss) ==
  <<ss["global"].entities, ss["global"].facts,
    ss["global"].entity_embeddings, ss["global"].fact_embeddings>>

ClassifyMaxPad == 1

\* the known predicates, near misses of them, an unknown verb and ""
ClassifyWords ==
  GLOBAL_PREDICATES \cup PROJECT_PREDICATES
    \cup { <<>>, <<"u", "s", "e">>, <<"u", "s", "e", "s", "s">>, <<"u", " ", "s", "e", "s">>,
           <<"s", "o", "m", "e", "_", "u", "n", "k", "n", "o", "w", "n", "_",
             "v", "e", "r", "b">> }

Capitalised(s) == IF s = <<>> THEN s ELSE <<UpperChar(Head(s))>> \o Tail(s)

RECURSIVE Paddings(_)
Paddings(n) ==
  IF n = 0 THEN {<<>>}
  ELSE Paddings(n - 1)
         \cup {<<c>> \o p : c \in {" ", "\t", "\n"}, p \in {p \in Paddings(n - 1) : Len(p) = n - 1}}

ClassifyInputs ==
  { l \o w \o r :
      l \in Paddings(ClassifyMaxPad), r \in Paddings(ClassifyMaxPad),
      w \in UNION { {x, toUpperCase(x), Capitalised(x)} : x \in ClassifyWords } }

\* the predicate a caller is about to pass
ClassifyInit ==
  /\ provider = [l \in Layers |-> "sqlite"]
  /\ stores = [l \in Layers |-> EmptyStore]
  /\ handle = [l \in Layers |-> FALSE]
  /\ ret \in {[op |-> "call", predicate |-> p, result |-> "undefined"] : p \in ClassifyInputs}
  /\ returnedEntities = {}
  /\ returnedFacts = <<>>

\* the call of classifyScope returns
Classify ==
  /\ ret.op = "call"
  /\ ret' = [op |-> "classifyScope", predicate |-> ret.predicate,
             result |-> classifyScope(ret.predicate)]
  /\ UNCHANGED <<stores, provider, handle, returnedEntities, returnedFacts>>

ClassifyNext == Classify

SpecClassify == ClassifyInit /\ [][ClassifyNext]_vars

\* the predicates the specification lists as global
C7_GlobalList ==
  { <<"u", "s", "e", "s">>,
    <<"d", "e", "p", "e", "n", "d", "s", "_", "o", "n">>,
    <<"w", "r", "i", "t", "t", "e", "n", "_", "i", "n">>,
    <<"d", "e", "p", "l", "o", "y", "e", "d", "_", "o", "n">>,
    <<"b", "u", "i", "l", "t", "_", "w", "i", "t", "h">>,
    <<"i", "n", "t", "e", "g", "r", "a", "t", "e", "s", "_", "w", "i", "t", "h">>,
    <<"p", "r", "e", "f", "e", "r", "s">>,
    <<"c", "o", "n", "v", "e", "n", "t", "i", "o", "n">>,
    <<"h", "a", "s", "_", "v", "e", "r", "s", "i", "o", "n">>,
    <<"r", "u", "n", "s", "_", "o", "n">> }

\* p is the word g written in any letter case between two runs of whitespace
WrittenAs(p, g) ==
  \E lo \in 0..Len(p) :
    /\ lo + Len(g) <= Len(p)
    /\ \A i \in 1..lo : IsSpace(p[i])
    /\ \A i \in 1..Len(g) : LowerChar(p[lo + i]) = g[i]
    /\ \A i \in (lo + Len(g) + 1)..Len(p) : IsSpace(p[i])

\* C7: scope classifier. classifyScope answers every string with global or
\* project; it answers global exactly when the string, lower-cased and
\* trimmed, is one of the ten listed predicates, and project for every other
\* string, the unknown predicates and the empty string among them.
C7_ScopeClassifier ==
  ret.op = "classifyScope" =>
    /\ ret.result \in {"global", "project"}
    /\ ret.result = "global" <=> \E g \in C7_GlobalList : WrittenAs(ret.predicate, g)
    /\ ret.predicate = <<>> => ret.result = "project"

\* C7 witness: a listed predicate written in upper case with whitespace on
\* both sides has been classified as global.
C7_Witness ==
  /\ ret.op = "classifyScope"
  /\ ret.result = "global"
  /\ ret.predicate = <<" ", "U", "S", "E", "S", "\n">>

\* ---------------------------------------------------------------------------
\* SpecOpen: opening and closing the relational store under changing
\* configurations
\* ---------------------------------------------------------------------------

OpenNames == { <<"a">> }

OpenVecs == { Vec(384, 1, 0), Vec(768, 1, 0) }

OpenInit ==
  /\ provider = [l \in Layers |-> "sqlite"]
  /\ stores = [l \in Layers |-> EmptyStore]
  /\ handle = [l \in Layers |-> FALSE]
  /\ ret = NoRet
  /\ returnedEntities = {}
  /\ returnedFacts = <<>>

\* initDb() with config.embeddingDim = embeddingDim on the database file of layer l
OpenInitDb ==
  \E l \in Layers, embeddingDim \in EmbeddingDims :
    \E r \in {initDb(stores[l], embeddingDim)} :
      /\ ~handle[l]
      /\ stores' = [stores EXCEPT ![l] = r.st]
      /\ handle' = [handle EXCEPT ![l] = (r.status = "ok")]
      /\ ret' = [op |-> "initDb", layer |-> l, status |-> r.status,
                 configured |-> embeddingDim, message |-> r.message]
      /\ UNCHANGED <<provider, returnedEntities, returnedFacts>>

\* Db.close()
OpenClose ==
  \E l \in Layers :
    /\ handle[l]
    /\ handle' = [handle EXCEPT ![l] = FALSE]
    /\ ret' = [op |-> "close", layer |-> l]
    /\ UNCHANGED <<stores, provider, returnedEntities, returnedFacts>>

OpenFindOrCreateEntity ==
  \E l \in Layers, name \in OpenNames, embedding \in OpenVecs :
    CallFindOrCreateEntity(l, name, embedding)

OpenNext == OpenInitDb \/ OpenClose \/ OpenFindOrCreateEntity

SpecOpen == OpenInit /\ [][OpenNext]_vars

\* C6: dimension lock. An initDb on a store whose persisted dimension differs
\* from the configured one fails with a message naming both, returns no
\* handle, and leaves the store, its persisted dimension included, as it was;
\* an initDb on a store with no persisted dimension records the configured
\* one and succeeds. Without a handle no operation is served.
C6_DimensionLock ==
  [][ /\ \A l \in Layers :
           (ret'.op = "initDb" /\ ret'.layer = l) =>
             LET stored == stores[l].meta
                 configured == String(ret'.configured)
             IN /\ (stored # <<>> /\ stored # configured) =>
                     /\ ret'.status = "error"
                     /\ ret'.message.created_with = stored
                     /\ ret'.message.current_config = configured
                     /\ ~handle'[l]
                     /\ stores'[l] = stores[l]
                /\ stored = <<>> =>
                     /\ ret'.status = "ok"
                     /\ handle'[l]
                     /\ stores'[l].meta = configured
      /\ \A l \in Layers :
           (ret'.op = "findOrCreateEntity" /\ ret'.layer = l) => handle[l]
    ]_vars

\* C6 witness: a store created with dimension 384 and holding an entity has
\* been opened with dimension 768 configured: the open failed naming 384 and
\* 768, and there is no handle.
C6_Witness ==
  /\ ret.op = "initDb"
  /\ ret.status = "error"
  /\ ret.message.created_with = <<"3", "8", "4">>
  /\ ret.message.current_config = <<"7", "6", "8">>
  /\ ~handle[ret.layer]
  /\ stores[ret.layer].meta = <<"3", "8", "4">>
  /\ stores[ret.layer].entities # <<>>

\* ---------------------------------------------------------------------------
\* SpecScope: storeFact through the coordinator with every scope tag a caller
\* may pass
\* ---------------------------------------------------------------------------

ScopeMaxFacts == 2

\* StoreFact.scopeCandidate?: "global" | "project" | null
ScopeTags == {"undefined", "null", "global", "project"}

ScopeInit == DualInit

ScopeFindOrCreateEntity ==
  \E name \in DualNames :
    \E r \in {dualFindOrCreateEntity(provider, stores, name, DualVec)} :
       /\ stores' = r.stores
       /\ ret' = [op |-> "dual.findOrCreateEntity", status |-> r.status, id |-> r.id,
                  name |-> name]
       /\ UNCHANGED <<provider, handle, returnedEntities, returnedFacts>>

ScopeStoreFact ==
  \E s \in Range(stores["project"].entities), o \in Range(stores["project"].entities),
     predicate \in DualPredicates, scope \in ScopeTags :
    \E params \in {[subjectId |-> s.id, predicate |-> predicate, objectId |-> o.id,
                    content |-> <<"c", "1">>, context |-> <<>>, source |-> <<>>,
                    embedding |-> DualVec, scopeCandidate |-> scope]} :
      \E r \in {dualStoreFact(provider, stores, params)} :
        /\ s.id # o.id
        /\ Len(stores["project"].facts) < ScopeMaxFacts
        /\ stores' = r.stores
        /\ ret' = [op |-> "dual.storeFact", status |-> r.status, id |-> r.id,
                   params |-> params, passed |-> dualScopeCandidate(params)]
        /\ UNCHANGED <<provider, handle, returnedEntities, returnedFacts>>

ScopeNext == ScopeFindOrCreateEntity \/ ScopeStoreFact

SpecScope == ScopeInit /\ [][ScopeNext]_vars

\* the stored tag the specification gives a tag supplied by the caller
SuppliedTag(scopeCandidate) == IF scopeCandidate = "null" THEN "none" ELSE scopeCandidate

\* C11: scope tag at write time. A storeFact through the coordinator whose
\* caller supplies a tag (global, project, or none) hands the project layer
\* exactly that tag and the fact is stored with it; the classifier's answer
\* for the predicate is used only when the caller supplies no tag.
C11_ScopeTagAtWriteTime ==
  (ret.op = "dual.storeFact" /\ ret.status = "ok") =>
    LET supplied == ret.params.scopeCandidate
        expected == IF supplied = "undefined" THEN classifyScope(ret.params.predicate)
                    ELSE SuppliedTag(supplied)
    IN /\ SuppliedTag(ret.passed) = expected
       /\ ScopeOf(stores["project"], ret.id) = expected
       /\ stores["global"].facts = <<>>

\* ---------------------------------------------------------------------------
\* Listing (db.ts listEntities, neo4j.ts listEntities) and the merged reads of
\* the coordinator (dual.ts graphTraverse, listEntities)
\* ---------------------------------------------------------------------------

\* the characters of the names, in code point order
CodeUnits ==
  <<"\t", "\n", " ", "0", "1", "2", "3", "4", "5", "6", "7", "8", "9">>
    \o UpperAlpha \o <<"_">> \o LowerAlpha \o <<"|">>

CodePoint(c) == CHOOSE i \in DOMAIN CodeUnits : CodeUnits[i] = c

\* a sorts before b when the characters are compared by weight W, place by place
LexLess(a, b, W(_)) ==
  \E i \in 1..(Len(a) + 1) :
    /\ i <= Len(b)
    /\ \A j \in 1..(i - 1) : W(a[j]) = W(b[j])
    /\ (i = Len(a) + 1 \/ W(a[i]) < W(b[i]))

\* ORDER BY e.name: SQLite's BINARY collation and Cypher's string order
BinaryLess(a, b) == LexLess(a, b, CodePoint)

\* the characters of the names in the order of the root collation: white
\* space, punctuation, digits, letters
CollationOrder ==
  <<"\t", "\n", " ", "_", "|", "0", "1", "2", "3", "4", "5", "6", "7", "8", "9">>
    \o LowerAlpha

PrimaryWeight(c) == CHOOSE i \in DOMAIN CollationOrder : CollationOrder[i] = LowerChar(c)

TertiaryWeight(c) == IF IsUpper(c) THEN 1 ELSE 0

\* a.localeCompare(b) < 0: letters compare without case first; among names
\* that differ in case only, the lower-case letter comes first
localeCompareLess(a, b) ==
  \/ LexLess(a, b, PrimaryWeight)
  \/ /\ Len(a) = Len(b)
     /\ \A j \in 1..Len(a) : PrimaryWeight(a[j]) = PrimaryWeight(b[j])
     /\ LexLess(a, b, TertiaryWeight)

\* the comparison of names a listing is sorted by
NameLess(order, a, b) ==
  IF order = "localeCompare" THEN localeCompareLess(a, b) ELSE BinaryLess(a, b)

\* the rows of S, which have distinct names, sorted by name in the given order
RECURSIVE SortByName(_, _)
SortByName(S, order) ==
  IF S = {} THEN <<>>
  ELSE LET first == CHOOSE r \in S : \A o \in S \ {r} : NameLess(order, r.name, o.name)
       IN <<first>> \o SortByName(S \ {first}, order)

\* COUNT(f.id) over LEFT JOIN facts f ON f.subject_id = e.id
SubjectCount(st, e) == Cardinality({k \in DOMAIN st.facts : st.facts[k].subject_id = e.id})

\* db.ts listEntities(pattern?): listEntitiesAll when the pattern is absent or
\* empty, else listEntitiesFiltered
sqliteListEntities(st, pattern) ==
  LET like == <<"%">> \o toLowerCase(pattern) \o <<"%">>
      listed == IF pattern = <<>> THEN Range(st.entities)
                ELSE {e \in Range(st.entities) : Like(like, toLowerCase(e.name))}
  IN SortByName({[name |-> e.name, factCount |-> SubjectCount(st, e)] : e \in listed},
                "binary")

\* neo4j.ts listEntities(pattern?)
neo4jListEntities(st, pattern) ==
  LET listed == IF pattern = <<>> THEN Range(st.entities)
                ELSE {e \in Range(st.entities) :
                        Contains(toLowerCase(e.name), toLowerCase(pattern))}
  IN SortByName({[name |-> e.name, factCount |-> SubjectCount(st, e)] : e \in listed},
                "binary")

\* StorageBackend.listEntities; an absent pattern is written <<>>, which the
\* code treats like the empty string
backendListEntities(kind, st, pattern) ==
  IF kind = "neo4j" THEN neo4jListEntities(st, pattern)
  ELSE sqliteListEntities(st, pattern)

\* map.get(name) ?? 0 over the rows of one layer
CountIn(rows, name) ==
  IF \E i \in DOMAIN rows : rows[i].name = name
    THEN (CHOOSE r \in Range(rows) : r.name = name).factCount
    ELSE 0

\* mutant of dualMergeEntities: the count of the project layer wins
dualMergeEntitiesNoSum(projectEntities, globalEntities) ==
  LET names == {r.name : r \in Range(projectEntities) \cup Range(globalEntities)}
  IN SortByName({[name |-> n,
                  factCount |-> IF \E r \in Range(projectEntities) : r.name = n
                                  THEN CountIn(projectEntities, n)
                                  ELSE CountIn(globalEntities, n)] : n \in names},
                "localeCompare")

\* dual.ts listEntities after both layers answered: merge by name, sum the
\* counts, sort with localeCompare
dualMergeEntities(projectEntities, globalEntities) ==
  LET names == {r.name : r \in Range(projectEntities) \cup Range(globalEntities)}
  IN SortByName({[name |-> n,
                  factCount |-> CountIn(projectEntities, n) + CountIn(globalEntities, n)] :
                 n \in names},
                "localeCompare")

\* dual.ts listEntities
dualListEntities(kinds, ss, pattern) ==
  dualMergeEntities(backendListEntities(kinds["project"], ss["project"], pattern),
                    backendListEntities(kinds["global"], ss["global"], pattern))

\* mutant of dualMergeGraph: the global facts come first
dualMergeGraphGlobalFirst(projectResult, globalResult) ==
  IF ~projectResult.found /\ ~globalResult.found THEN NotFound
  ELSE IF ~projectResult.found THEN globalResult
  ELSE IF ~globalResult.found THEN projectResult
  ELSE [found |-> TRUE, matchedName |-> projectResult.matchedName,
        entities |-> projectResult.entities \cup globalResult.entities,
        facts |-> dedupeByKey(globalResult.facts \o projectResult.facts, {}, <<>>)]

\* dual.ts graphTraverse after both layers answered; the Map keyed by
\* `${f.subject}|${f.predicate}|${f.object}` keeps the first fact of each key
dualMergeGraph(projectResult, globalResult) ==
  IF ~projectResult.found /\ ~globalResult.found THEN NotFound
  ELSE IF ~projectResult.found THEN globalResult
  ELSE IF ~globalResult.found THEN projectResult
  ELSE [found |-> TRUE, matchedName |-> projectResult.matchedName,
        entities |-> projectResult.entities \cup globalResult.entities,
        facts |-> dedupeByKey(projectResult.facts \o globalResult.facts, {}, <<>>)]

\* dual.ts graphTraverse: every outcome, given the results the layers may give
dualGraphTraverse(kinds, ss, entityName, depth) ==
  { [projectResult |-> p, globalResult |-> g, result |-> dualMergeGraph(p, g)] :
    p \in graphTraverseResults(kinds["project"], ss["project"], entityName, depth),
    g \in graphTraverseResults(kinds["global"], ss["global"], entityName, depth) }

\* ---------------------------------------------------------------------------
\* SpecMerge: the merged reads of the coordinator over two layers that both
\* hold data (the global layer holds what promotions wrote into it)
\* ---------------------------------------------------------------------------

MergeMaxFacts == 2

MergeNameA == <<"a">>

MergeNameB == <<"B">>

MergeNameC == <<"c">>

MergeNameAB == <<"a", "|", "u", "|", "b">>

MergeNameBC == <<"b", "|", "u", "|", "c">>

MergePredicate == <<"u">>

\* the subject -> object pairs of the facts each layer is given
MergeEdges(l) ==
  IF l = "project"
    THEN { <<MergeNameA, MergeNameC>>, <<MergeNameB, MergeNameA>>,
           <<MergeNameA, MergeNameBC>> }
    ELSE { <<MergeNameA, MergeNameC>>, <<MergeNameAB, MergeNameC>>,
           <<MergeNameB, MergeNameBC>> }

\* the content tells the copies of the two layers apart
MergeContent(l) == IF l = "project" THEN <<"c", "1">> ELSE <<"c", "2">>

MergeQueries == { <<"a">>, <<"B">>, <<"x">> }

MergeDepths == {1}

MergePatterns == { <<>>, <<"b">> }

MergeInit == DualInit

\* a fact with its two entities is written into one layer
MergeStore ==
  \E l \in Layers :
   \E edge \in MergeEdges(l) :
    \E r \in {memoryStore(provider[l], stores[l],
                [subject |-> edge[1], predicate |-> MergePredicate, object |-> edge[2],
                 fact |-> MergeContent(l), context |-> <<>>, source |-> <<>>],
                [subject |-> DualVec, object |-> DualVec, fact |-> DualVec])} :
      /\ Len(stores[l].facts) < MergeMaxFacts
      /\ stores' = [stores EXCEPT ![l] = r.st]
      /\ ret' = [op |-> "memory_store", layer |-> l, status |-> r.status, edge |-> edge]
      /\ UNCHANGED <<provider, handle, returnedEntities, returnedFacts>>

\* coordinator.graphTraverse
MergeGraphTraverse ==
  \E query \in MergeQueries, depth \in MergeDepths :
    \E r \in dualGraphTraverse(provider, stores, query, depth) :
      /\ ret' = [op |-> "dual.graphTraverse", query |-> query, depth |-> depth,
                 projectResult |-> r.projectResult, globalResult |-> r.globalResult,
                 result |-> r.result]
      /\ UNCHANGED <<stores, provider, handle, returnedEntities, returnedFacts>>

\* coordinator.listEntities
MergeListEntities ==
  \E pattern \in MergePatterns :
    /\ ret' = [op |-> "dual.listEntities", pattern |-> pattern,
               projectEntities |->
                 backendListEntities(provider["project"], stores["project"], pattern),
               globalEntities |->
                 backendListEntities(provider["global"], stores["global"], pattern),
               rows |-> dualListEntities(provider, stores, pattern)]
    /\ UNCHANGED <<stores, provider, handle, returnedEntities, returnedFacts>>

MergeNext == MergeStore \/ MergeGraphTraverse \/ MergeListEntities

SpecMerge == MergeInit /\ [][MergeNext]_vars

Triples(facts) == {Triple(f) : f \in Range(facts)}

\* C12: merged graph traversal. The coordinator's graphTraverse is not-found
\* exactly when both layers are; with one layer hitting it is that layer's
\* result unchanged; with both hitting it has the project result's
\* matchedName, the union of the two connected-entity sets, and the facts of
\* both results with one fact for each (subject, predicate, object), the
\* project copy where the project result has one.
C12_MergedGraphTraversal ==
  ret.op = "dual.graphTraverse" =>
    LET p == ret.projectResult
        g == ret.globalResult
        r == ret.result
    IN /\ ~r.found <=> (~p.found /\ ~g.found)
       /\ (p.found /\ ~g.found) => r = p
       /\ (~p.found /\ g.found) => r = g
       /\ (p.found /\ g.found) =>
            /\ r.matchedName = p.matchedName
            /\ r.entities = p.entities \cup g.entities
            /\ \A i \in DOMAIN r.facts, j \in DOMAIN r.facts :
                 i # j => Triple(r.facts[i]) # Triple(r.facts[j])
            /\ Triples(r.facts) = Triples(p.facts) \cup Triples(g.facts)
            /\ \A f \in Range(r.facts) :
                 IF Triple(f) \in Triples(p.facts) THEN f \in Range(p.facts)
                 ELSE f \in Range(g.facts)

\* the factCount a listing gives a name, 0 where the listing has no such name
ListedCount(rows, name) ==
  LET S == {r \in Range(rows) : r.name = name}
  IN IF S = {} THEN 0 ELSE (CHOOSE r \in S : TRUE).factCount

ListedNames(rows) == {r.name : r \in Range(rows)}

\* C13: merged listing. The coordinator's listEntities has each name of
\* either layer's listing exactly once, with the sum of the name's factCount
\* in the project listing and in the global listing (0 where absent), the
\* rows in ascending order of name.
C13_MergedListing ==
  ret.op = "dual.listEntities" =>
    /\ ListedNames(ret.rows) = ListedNames(ret.projectEntities) \cup ListedNames(ret.globalEntities)
    /\ \A i \in DOMAIN ret.rows, j \in DOMAIN ret.rows :
         i # j => ret.rows[i].name # ret.rows[j].name
    /\ \A r \in Range(ret.rows) :
         r.factCount = ListedCount(ret.projectEntities, r.name)
                         + ListedCount(ret.globalEntities, r.name)
    /\ \A i \in DOMAIN ret.rows, j \in DOMAIN ret.rows :
         i < j => ~localeCompareLess(ret.rows[j].name, ret.rows[i].name)

\* C13 witness: a listing of everything in which one name has a positive count
\* in both layers, another name is listed by the global layer only, and a
\* lower-case name precedes an upper-case one.
C13_Witness ==
  /\ ret.op = "dual.listEntities"
  /\ ret.pattern = <<>>
  /\ \E r \in Range(ret.rows) :
       /\ ListedCount(ret.projectEntities, r.name) > 0
       /\ ListedCount(ret.globalEntities, r.name) > 0
  /\ \E n \in ListedNames(ret.globalEntities) : n \notin ListedNames(ret.projectEntities)
  /\ \E i \in DOMAIN ret.rows, j \in DOMAIN ret.rows :
       i < j /\ ret.rows[i].name = MergeNameA /\ ret.rows[j].name = MergeNameB

\* ---------------------------------------------------------------------------
\* SpecFanOut: the two layer calls of one coordinator operation in flight.
\* ret holds the operation: the state of each layer call, which call rejected
\* first, and the outcome of the promise the coordinator returns.
\* ---------------------------------------------------------------------------

FanOutOps == {"close", "searchFacts", "graphTraverse", "listEntities"}

FanOutLimit == 2

NoValue == [none |-> TRUE]

Pending == [state |-> "pending", value |-> NoValue]

Rejected == [state |-> "rejected", value |-> NoValue]

Fulfilled(v) == [state |-> "fulfilled", value |-> v]

\* The ways one layer call of the operation may settle: with each result the
\* backend may give, or rejected (the engine or the connection failed).
layerCall(op, kind, st) ==
  {Rejected} \cup
    CASE op = "close" -> {Fulfilled([closed |-> TRUE])}
      [] op = "searchFacts" ->
           {Fulfilled(r) : r \in {r \in backendSearchFacts(kind, st, DualVec, FanOutLimit) :
                                    r.status = "ok"}}
      [] op = "graphTraverse" ->
           {Fulfilled(r) : r \in graphTraverseResults(kind, st, MergeNameA, 1)}
      [] op = "listEntities" ->
           {Fulfilled([rows |-> backendListEntities(kind, st, <<>>)])}

\* sqliteBackend wraps the synchronous Db calls in async functions, so the
\* call has run when the function returns its promise; the Neo4j calls await
\* the driver
SettlesAtCall(kind) == kind = "sqlite"

\* mutant of promiseAll: the promise resolves once every call has settled
promiseAllIgnoreRejections(calls, first) ==
  IF \A l \in Layers : calls[l].state # "pending"
    THEN [state |-> "fulfilled", errors |-> {}]
    ELSE [state |-> "pending", errors |-> {}]

\* Promise.all([project call, global call]): rejected with the reason of the
\* call that rejected first as soon as one call has rejected, fulfilled once
\* both calls are
promiseAll(calls, first) ==
  IF first # "none" THEN [state |-> "rejected", errors |-> {first}]
  ELSE IF \A l \in Layers : calls[l].state = "fulfilled"
    THEN [state |-> "fulfilled", errors |-> {}]
  ELSE [state |-> "pending", errors |-> {}]

\* the statements after the await, run when Promise.all was fulfilled
fanOutResult(op, calls) ==
  IF \E l \in Layers : calls[l].state # "fulfilled" THEN NoValue
  ELSE CASE op = "close" -> [closed |-> TRUE]
         [] op = "searchFacts" ->
              [rows |-> dualMergeSearch(calls["project"].value.rows,
                                        calls["global"].value.rows, FanOutLimit)]
         [] op = "graphTraverse" ->
              dualMergeGraph(calls["project"].value, calls["global"].value)
         [] op = "listEntities" ->
              [rows |-> dualMergeEntities(calls["project"].value.rows,
                                          calls["global"].value.rows)]

\* which call rejected first, project being called before global
FirstRejected(first, calls) ==
  IF first # "none" THEN first
  ELSE IF calls["project"].state = "rejected" THEN "project"
  ELSE IF calls["global"].state = "rejected" THEN "global"
  ELSE "none"

\* a close that was fulfilled leaves the layer without a handle
HandleAfter(op, calls) ==
  [l \in Layers |->
     handle[l] /\ ~(op = "close" /\ calls[l].state = "fulfilled")]

\* two layers with data, opened
FanOutInit ==
  /\ provider \in [Layers -> Providers]
  /\ stores = [l \in Layers |->
                 memoryStore(provider[l], OpenedStores(provider)[l],
                   [subject |-> MergeNameA, predicate |-> MergePredicate,
                    object |-> MergeNameC, fact |-> MergeContent(l),
                    context |-> <<>>, source |-> <<>>],
                   [subject |-> DualVec, object |-> DualVec, fact |-> DualVec]).st]
  /\ handle = [l \in Layers |-> TRUE]
  /\ ret = NoRet
  /\ returnedEntities = {}
  /\ returnedFacts = <<>>

FanOutIdle ==
  IF ret = NoRet THEN TRUE
  ELSE /\ ret.outcome.state # "pending"
       /\ \A l \in Layers : ret.calls[l].state # "pending"

\* the coordinator operation is called: both layer calls are made, project first
FanOutStart ==
  \E op \in FanOutOps :
    \E calls \in [Layers -> {Pending} \cup UNION {layerCall(op, provider[l], stores[l]) :
                                                  l \in Layers}] :
      /\ FanOutIdle
      /\ \A l \in Layers : handle[l]
      /\ \A l \in Layers :
           IF SettlesAtCall(provider[l])
             THEN calls[l] \in layerCall(op, provider[l], stores[l])
             ELSE calls[l] = Pending
      /\ ret' = [op |-> op, calls |-> calls, first |-> FirstRejected("none", calls),
                 outcome |-> [state |-> "pending", errors |-> {}], result |-> NoValue]
      /\ handle' = HandleAfter(op, calls)
      /\ UNCHANGED <<stores, provider, returnedEntities, returnedFacts>>

\* a layer call that was pending settles
FanOutLayerSettles ==
  /\ ret # NoRet
  /\ \E l \in Layers :
       /\ ret.calls[l].state = "pending"
       /\ \E v \in layerCall(ret.op, provider[l], stores[l]) :
            \E calls \in {[ret.calls EXCEPT ![l] = v]} :
              /\ ret' = [ret EXCEPT !.calls = calls,
                                    !.first = FirstRejected(ret.first, calls)]
              /\ handle' = HandleAfter(ret.op, calls)
  /\ UNCHANGED <<stores, provider, returnedEntities, returnedFacts>>

\* the promise of Promise.all settles and the coordinator operation with it
FanOutJoin ==
  /\ ret # NoRet
  /\ ret.outcome.state = "pending"
  /\ \E outcome \in {promiseAll(ret.calls, ret.first)} :
       /\ outcome.state # "pending"
       /\ ret' = [ret EXCEPT !.outcome = outcome,
                             !.result = IF outcome.state = "fulfilled"
                                          THEN fanOutResult(ret.op, ret.calls)
                                          ELSE NoValue]
  /\ UNCHANGED <<stores, provider, handle, returnedEntities, returnedFacts>>

FanOutNext == FanOutStart \/ FanOutLayerSettles \/ FanOutJoin

SpecFanOut == FanOutInit /\ [][FanOutNext]_vars

\* C14: Coordinator close. The close of the coordinator is not settled while
\* a layer's close is still pending; it is rejected exactly when a layer's
\* close was rejected; and when both were rejected the failure carries the
\* errors of both layers.
C14_CoordinatorClose ==
  (ret.op = "close" /\ ret.outcome.state # "pending") =>
    /\ \A l \in Layers : ret.calls[l].state # "pending"
    /\ (ret.outcome.state = "rejected") <=>
         (\E l \in Layers : ret.calls[l].state = "rejected")
    /\ (\A l \in Layers : ret.calls[l].state = "rejected") =>
         ret.outcome.errors = Layers

FanOutReads == {"searchFacts", "graphTraverse", "listEntities"}

\* C15: No partial results on fan-out. A merged read that was fulfilled has
\* both layer calls fulfilled and returns the merge of the two results; a
\* merged read that settled after a layer call was rejected is rejected and
\* returns nothing.
C15_NoPartialResults ==
  (ret.op \in FanOutReads /\ ret.outcome.state # "pending") =>
    /\ (ret.outcome.state = "fulfilled") =>
         /\ \A l \in Layers : ret.calls[l].state = "fulfilled"
         /\ ret.result = fanOutResult(ret.op, ret.calls)
         /\ ret.result # NoValue
    /\ (\E l \in Layers : ret.calls[l].state = "rejected") =>
         /\ ret.outcome.state = "rejected"
         /\ ret.result = NoValue

\* a merged read was rejected although the other layer's call was fulfilled
C15_Witness ==
  /\ ret.op \in FanOutReads
  /\ ret.outcome.state = "rejected"
  /\ \E l \in Layers : ret.calls[l].state = "fulfilled"
  /\ \E l \in Layers : ret.calls[l].state = "rejected"

\* ---------------------------------------------------------------------------
\* SpecPromote: memory_store through the coordinator and the promote command,
\* with candidates of different content and an embedding provider that may
\* fail on one of them
\* ---------------------------------------------------------------------------

PromoteMaxFacts == 2

PromoteMaxGlobalFacts == 2

PromoteContents == { <<"c", "1">>, <<"c", "2">> }

\* what the operator may type at the prompt
PromoteAnswers ==
  { <<"y">>, <<"N">>, <<" ">>, <<>>, <<"1">>, <<"2">>, <<"2", ",", "1">>,
    <<"0", ",", "x">>, <<"9">>, <<"1", ",", "1">> }

\* the answers that select nothing: N, empty, only invalid indices
PromoteNoAnswers == { <<"N">>, <<" ">>, <<>>, <<"0", ",", "x">>, <<"9">> }

PromoteEmbedOk == [t \in DualNames \cup PromoteContents |-> [ok |-> TRUE, vec |-> DualVec]]

\* how the embedding provider behaves during one promote run: it answers, or
\* it rejects the text of one candidate
PromoteEmbedFns ==
  {PromoteEmbedOk} \cup
  { [PromoteEmbedOk EXCEPT ![c] = [ok |-> FALSE, vec |-> DualVec]] : c \in PromoteContents }

\* the memory_store handler over the coordinator
dualMemoryStore(kinds, ss, args, embs) ==
  LET r1 == dualFindOrCreateEntity(kinds, ss, args.subject, embs.subject)
  IN IF r1.status # "ok" THEN [stores |-> r1.stores, status |-> "error"]
     ELSE
       LET r2 == dualFindOrCreateEntity(kinds, r1.stores, args.object, embs.object)
       IN IF r2.status # "ok" THEN [stores |-> r2.stores, status |-> "error"]
          ELSE
            LET r3 == dualStoreFact(kinds, r2.stores,
                        [subjectId |-> r1.id, predicate |-> args.predicate,
                         objectId |-> r2.id, content |-> args.fact,
                         context |-> args.context, source |-> args.source,
                         embedding |-> embs.fact, scopeCandidate |-> "undefined"])
            IN [stores |-> r3.stores, status |-> r3.status]

PromoteInit == DualInit

\* memory_store
PromoteStore ==
  \E predicate \in DualPredicates, content \in PromoteContents :
    \E r \in {dualMemoryStore(provider, stores,
                [subject |-> NameX, predicate |-> predicate, object |-> NameY,
                 fact |-> content, context |-> <<>>, source |-> <<>>],
                [subject |-> DualVec, object |-> DualVec, fact |-> DualVec])} :
      /\ Len(stores["project"].facts) < PromoteMaxFacts
      /\ stores' = r.stores
      /\ ret' = [op |-> "memory_store", status |-> r.status, predicate |-> predicate,
                 content |-> content]
      /\ UNCHANGED <<provider, handle, returnedEntities, returnedFacts>>

\* the promote command
PromoteRun ==
  \E answer \in PromoteAnswers, embed \in PromoteEmbedFns :
    \E r \in {runPromote(provider, stores, answer, embed)} :
      /\ Len(stores["global"].facts) < PromoteMaxGlobalFacts
      /\ stores' = r.stores
      /\ ret' = [op |-> "promote", status |-> r.status, answer |-> answer,
                 embed |-> embed, candidates |-> r.candidates, indices |-> r.indices,
                 promoted |-> r.promoted]
      /\ UNCHANGED <<provider, handle, returnedEntities, returnedFacts>>

PromoteNext == PromoteStore \/ PromoteRun

SpecPromote == PromoteInit /\ [][PromoteNext]_vars

EmbedsAll(embed, c) == embed[c.subject].ok /\ embed[c.object].ok /\ embed[c.content].ok

\* the candidate has a copy in the global layer st and is no candidate in p
PromotedIn(p, g, c) ==
  /\ ScopeOf(p, c.factId) = "none"
  /\ \E f \in Range(g.facts) : SameFactAs(g, f, c)

\* C16: Per-item promotion failure. A promote run that selected candidates
\* ends by reporting a count; every selected candidate whose three texts the
\* provider embedded has been promoted, whether or not another candidate of
\* the batch failed; and the count is the number of candidates promoted.
C16_PerItemPromotionFailure ==
  [][ (ret'.op = "promote" /\ ret'.indices # <<>>) =>
        /\ ret'.status = "done"
        /\ \A k \in Range(ret'.indices) :
             EmbedsAll(ret'.embed, ret'.candidates[k + 1]) =>
               PromotedIn(stores'["project"], stores'["global"], ret'.candidates[k + 1])
        /\ ret'.promoted =
             Cardinality({k \in Range(ret'.indices) :
                            ScopeOf(stores'["project"], ret'.candidates[k + 1].factId) = "none"})
    ]_vars

NewFacts(before, after) ==
  {f \in Range(after.facts) : \A old \in Range(before.facts) : old.id # f.id}

\* C17: Unselected candidates are untouched. After a promote run, a candidate
\* that was not selected keeps the global tag and is listed again by
\* getCandidateFacts("global"); every fact the run added to the global layer
\* is the copy of a selected candidate, at most one for each selection; and
\* when the answer is N, empty or holds only invalid indices, both layers are
\* as they were.
C17_UnselectedUntouched ==
  [][ ret'.op = "promote" =>
        /\ \A k \in 1..Len(ret'.candidates) :
             (k - 1) \notin Range(ret'.indices) =>
               /\ ScopeOf(stores'["project"], ret'.candidates[k].factId) = "global"
               /\ \E d \in Range(getCandidateFacts(stores'["project"], "global")) :
                    d = ret'.candidates[k]
        /\ \A f \in NewFacts(stores["global"], stores'["global"]) :
             \E k \in Range(ret'.indices) :
               SameFactAs(stores'["global"], f, ret'.candidates[k + 1])
        /\ Cardinality(NewFacts(stores["global"], stores'["global"])) <= Len(ret'.indices)
        /\ stores'["project"].facts = stores["project"].facts
        /\ (ret'.answer \in PromoteNoAnswers \/ ret'.indices = <<>>) =>
             /\ ret'.indices = <<>>
             /\ stores' = stores
    ]_vars

\* one of two candidates was selected and promoted; the other is still a candidate
C17_Witness ==
  /\ ret.op = "promote"
  /\ ret.status = "done"
  /\ Len(ret.candidates) = 2
  /\ Len(ret.indices) = 1
  /\ Len(stores["global"].facts) = 1
  /\ Len(getCandidateFacts(stores["project"], "global")) = 1

\* ---------------------------------------------------------------------------
\* SpecList: memory_store and memory_list on a single store (the project layer)
\* ---------------------------------------------------------------------------

ListMaxFacts == 2

ListNameAB == <<"a", "b">>

ListNameB == <<"B">>

ListNameU == <<"a", "_">>

ListNames == {ListNameAB, ListNameB, ListNameU}

\* absent, lower case, upper case, a LIKE wildcard, no match
ListPatterns == { <<>>, <<"b">>, <<"A">>, <<"_">>, <<"z">> }

ListInit == DualInit

\* memory_store
ListStore ==
  \E subject \in ListNames, object \in ListNames :
    \E r \in {memoryStore(provider["project"], stores["project"],
                [subject |-> subject, predicate |-> MergePredicate, object |-> object,
                 fact |-> <<"c", "1">>, context |-> <<>>, source |-> <<>>],
                [subject |-> DualVec, object |-> DualVec, fact |-> DualVec])} :
      /\ subject # object
      /\ Len(stores["project"].facts) < ListMaxFacts
      /\ stores' = [stores EXCEPT !["project"] = r.st]
      /\ ret' = [op |-> "memory_store", status |-> r.status, subject |-> subject,
                 object |-> object]
      /\ UNCHANGED <<provider, handle, returnedEntities, returnedFacts>>

\* memory_list
ListEntities ==
  \E pattern \in ListPatterns :
    /\ ret' = [op |-> "listEntities", pattern |-> pattern,
               rows |-> backendListEntities(provider["project"], stores["project"], pattern)]
    /\ UNCHANGED <<stores, provider, handle, returnedEntities, returnedFacts>>

ListNext == ListStore \/ ListEntities

SpecList == ListInit /\ [][ListNext]_vars

\* the names of the entities of st that contain the pattern, case ignored
NamesContaining(st, pattern) ==
  {e.name : e \in {e \in Range(st.entities) :
                     pattern = <<>> \/ Contains(toLowerCase(e.name), toLowerCase(pattern))}}

\* the facts of st whose subject is the entity of that name
FactsOfSubject(st, name) ==
  {k \in DOMAIN st.facts : EntityById(st, st.facts[k].subject_id).name = name}

\* C18: listEntities in a single store returns one row for each entity whose
\* name contains the pattern, case ignored (every entity without a pattern),
\* in ascending order of name, with factCount the number of facts whose
\* subject the entity is.
C18_SingleStoreListing ==
  ret.op = "listEntities" =>
    /\ {ret.rows[i].name : i \in DOMAIN ret.rows} = NamesContaining(stores["project"], ret.pattern)
    /\ Len(ret.rows) = Cardinality(NamesContaining(stores["project"], ret.pattern))
    /\ \A i \in DOMAIN ret.rows : \A j \in DOMAIN ret.rows :
         i < j => BinaryLess(ret.rows[i].name, ret.rows[j].name)
    /\ \A i \in DOMAIN ret.rows :
         ret.rows[i].factCount = Cardinality(FactsOfSubject(stores["project"], ret.rows[i].name))

\* ---------------------------------------------------------------------------
\* SpecRuntime: every operation of the running system over the two layers:
\* memory_store, memory_search, memory_graph, memory_list and promote
\* ---------------------------------------------------------------------------

RuntimeMaxFacts == 2

RuntimeMaxGlobalFacts == 2

\* what the operator may type at the prompt
RuntimeAnswers == { <<"y">>, <<"N">>, <<"2">> }

RuntimeInit == DualInit

\* memory_store
RuntimeStore ==
  \E predicate \in DualPredicates, subject \in DualNames, object \in DualNames :
    \E r \in {dualMemoryStore(provider, stores,
                [subject |-> subject, predicate |-> predicate, object |-> object,
                 fact |-> <<"c", "1">>, context |-> <<>>, source |-> <<>>],
                [subject |-> DualVec, object |-> DualVec, fact |-> DualVec])} :
      /\ subject # object
      /\ Len(stores["project"].facts) < RuntimeMaxFacts
      /\ stores' = r.stores
      /\ ret' = [op |-> "memory_store", status |-> r.status]
      /\ UNCHANGED <<provider, handle, returnedEntities, returnedFacts>>

\* memory_search
RuntimeSearch ==
  \E r \in dualSearchFacts(provider, stores, DualVec, FanOutLimit) :
    /\ ret' = [op |-> "memory_search", status |-> r.status]
    /\ UNCHANGED <<stores, provider, handle, returnedEntities, returnedFacts>>

\* memory_graph
RuntimeGraph ==
  \E name \in DualNames :
    \E r \in dualGraphTraverse(provider, stores, name, 1) :
      /\ ret' = [op |-> "memory_graph", status |-> IF r.result.found THEN "ok" ELSE "none"]
      /\ UNCHANGED <<stores, provider, handle, returnedEntities, returnedFacts>>

\* memory_list
RuntimeList ==
  \E rows \in {dualListEntities(provider, stores, <<>>)} :
    /\ ret' = [op |-> "memory_list", status |-> IF rows = <<>> THEN "none" ELSE "ok"]
    /\ UNCHANGED <<stores, provider, handle, returnedEntities, returnedFacts>>

\* the promote command
RuntimePromote ==
  \E answer \in RuntimeAnswers, embed \in DualEmbedFns :
    \E r \in {runPromote(provider, stores, answer, embed)} :
      /\ Len(stores["global"].facts) < RuntimeMaxGlobalFacts
      /\ stores' = r.stores
      /\ ret' = [op |-> "promote", status |-> r.status]
      /\ UNCHANGED <<provider, handle, returnedEntities, returnedFacts>>

RuntimeNext ==
  RuntimeStore \/ RuntimeSearch \/ RuntimeGraph \/ RuntimeList \/ RuntimePromote

SpecRuntime == RuntimeInit /\ [][RuntimeNext]_vars

ScopeRows(st, factId) == {r \in st.scope : r.fact_id = factId}

\* C19: No runtime deletion. In every step, each layer keeps every entity and
\* every fact it held, each fact with the subject, predicate, object, content,
\* context, source and embedding it had; the scope tag of a fact that existed
\* changes only in a promote step.
C19_NoRuntimeDeletion ==
  [][ \A l \in Layers :
        /\ Range(stores[l].entities) \subseteq Range(stores'[l].entities)
        /\ Len(stores'[l].facts) >= Len(stores[l].facts)
        /\ SubSeq(stores'[l].facts, 1, Len(stores[l].facts)) = stores[l].facts
        /\ stores[l].fact_embeddings \subseteq stores'[l].fact_embeddings
        /\ \A f \in Range(stores[l].facts) :
             ScopeRows(stores'[l], f.id) # ScopeRows(stores[l], f.id) =>
               /\ ret'.op = "promote"
               /\ l = "project"
               /\ \A r \in ScopeRows(stores'[l], f.id) : r.scope_candidate = "none"
    ]_vars

\* a promotion has changed the tag of a project fact, and both layers hold facts
C19_Witness ==
  /\ ret.op = "promote"
  /\ ret.status = "done"
  /\ Len(stores["project"].facts) = 2
  /\ Len(stores["global"].facts) >= 1
  /\ \E f \in Range(stores["project"].facts) : ScopeOf(stores["project"], f.id) = "none"

\* ---------------------------------------------------------------------------
\* SpecNeo4jOpen: opening, using and closing the Neo4j backend of each layer.
\* handle[l] holds what the closure of initNeo4j holds: whether the driver is
\* open, config.embeddingDim, and the schemaReady flag.
\* ---------------------------------------------------------------------------

Neo4jClosed == [open |-> FALSE, embeddingDim |-> 0, schemaReady |-> FALSE]

Neo4jOpenInit ==
  /\ provider = [l \in Layers |-> "neo4j"]
  /\ stores = [l \in Layers |-> EmptyStore]
  /\ handle = [l \in Layers |-> Neo4jClosed]
  /\ ret = NoRet
  /\ returnedEntities = {}
  /\ returnedFacts = <<>>

\* initNeo4j(): the driver is created and the backend returned; no query runs
Neo4jOpenInitNeo4j ==
  \E l \in Layers, embeddingDim \in EmbeddingDims :
    /\ ~handle[l].open
    /\ handle' = [handle EXCEPT ![l] = [open |-> TRUE, embeddingDim |-> embeddingDim,
                                        schemaReady |-> FALSE]]
    /\ ret' = [op |-> "initNeo4j", layer |-> l, status |-> "ok",
               configured |-> embeddingDim]
    /\ UNCHANGED <<stores, provider, returnedEntities, returnedFacts>>

\* withSession: ensureSchema on the first session of the backend, then fn
withSession(h, st) ==
  IF h.schemaReady THEN st ELSE ensureSchema(st, h.embeddingDim).st

\* findOrCreateEntity on the backend of layer l, with an embedding of the
\* configured dimension
Neo4jOpenFindOrCreateEntity ==
  \E l \in Layers, name \in OpenNames :
    \E r \in {neo4jFindOrCreateEntity(withSession(handle[l], stores[l]), name,
                                      Vec(handle[l].embeddingDim, 1, 0))} :
      /\ handle[l].open
      /\ stores' = [stores EXCEPT ![l] = r.st]
      /\ handle' = [handle EXCEPT ![l].schemaReady = TRUE]
      /\ ret' = [op |-> "findOrCreateEntity", layer |-> l, status |-> r.status,
                 configured |-> handle[l].embeddingDim]
      /\ UNCHANGED <<provider, returnedEntities, returnedFacts>>

\* close(): driver.close()
Neo4jOpenClose ==
  \E l \in Layers :
    /\ handle[l].open
    /\ handle' = [handle EXCEPT ![l] = Neo4jClosed]
    /\ ret' = [op |-> "close", layer |-> l, status |-> "ok", configured |-> 0]
    /\ UNCHANGED <<stores, provider, returnedEntities, returnedFacts>>

Neo4jOpenNext == Neo4jOpenInitNeo4j \/ Neo4jOpenFindOrCreateEntity \/ Neo4jOpenClose

SpecNeo4jOpen == Neo4jOpenInit /\ [][Neo4jOpenNext]_vars

\* C20: Graph-native dimension lock. Opening the Neo4j backend of a layer
\* whose persisted vector indexes have a dimension other than the configured
\* one fails and gives no backend; and no operation is served by a backend
\* whose configured dimension differs from the persisted one.
C20_GraphNativeDimensionLock ==
  [][ \A l \in Layers :
        /\ (ret'.op = "initNeo4j" /\ ret'.layer = l
              /\ stores[l].vec_dim \notin {0, ret'.configured}) =>
             /\ ret'.status = "error"
             /\ ~handle'[l].open
        /\ (ret'.op = "findOrCreateEntity" /\ ret'.layer = l) =>
             stores[l].vec_dim \in {0, ret'.configured}
    ]_vars

\* ---------------------------------------------------------------------------
\* SpecEquiv: the same memory_store calls made on a SQLite store (layer
\* project) and on a Neo4j store (layer global), and the same graphTraverse
\* asked of both
\* ---------------------------------------------------------------------------

EquivMaxFacts == 3

EquivMaxDepth == 2

EquivQueries == { <<"b">>, <<"C">>, <<"s">>, <<"x">> }

EquivInit ==
  /\ provider = [l \in Layers |-> IF l = "project" THEN "sqlite" ELSE "neo4j"]
  /\ stores = OpenedStores(provider)
  /\ handle = [l \in Layers |-> TRUE]
  /\ ret = NoRet
  /\ returnedEntities = {}
  /\ returnedFacts = <<>>

\* memory_store with the same arguments on each store
EquivStore ==
  \E edge \in GraphEdges :
    \E args \in {[subject |-> edge[1], predicate |-> MergePredicate, object |-> edge[2],
                  fact |-> <<"c", "1">>, context |-> <<>>, source |-> <<>>]} :
      /\ Len(stores["project"].facts) < EquivMaxFacts
      /\ stores' = [l \in Layers |->
                      memoryStore(provider[l], stores[l], args,
                        [subject |-> GraphVec, object |-> GraphVec, fact |-> GraphVec]).st]
      /\ ret' = [op |-> "memory_store", edge |-> edge]
      /\ UNCHANGED <<provider, handle, returnedEntities, returnedFacts>>

\* graphTraverse(query, depth) on each store, both resolving the query to the
\* entity of the same name
EquivGraphTraverse ==
  \E query \in EquivQueries, depth \in 1..EquivMaxDepth :
    \E p \in graphTraverseResults(provider["project"], stores["project"], query, depth),
       g \in graphTraverseResults(provider["global"], stores["global"], query, depth) :
      /\ p.matchedName = g.matchedName
      /\ ret' = [op |-> "graphTraverse", query |-> query, depth |-> depth,
                 sqlite |-> p, neo4j |-> g]
      /\ UNCHANGED <<stores, provider, handle, returnedEntities, returnedFacts>>

EquivNext == EquivStore \/ EquivGraphTraverse

SpecEquiv == EquivInit /\ [][EquivNext]_vars

\* the rows of the facts of st that touch the entity of name start or an
\* entity within depth hops of it
FactsTouching(st, start, depth) ==
  LET s == EntityByName(st, start)
      near == WithinHops(st, s.id, depth) \cup {s.id}
  IN {GraphFact(st, f) : f \in {f \in Range(st.facts) :
                                  f.subject_id \in near \/ f.object_id \in near}}

\* C21: Backend equivalence of traversal facts. For the same stored entities
\* and facts, the same start entity and the same depth d, graphTraverse of the
\* SQLite backend and of the Neo4j backend return the same set of facts: the
\* facts whose subject or object is the start entity or within d hops of it.
C21_TraversalFactsEquivalent ==
  (ret.op = "graphTraverse" /\ ret.sqlite.found /\ ret.neo4j.found) =>
    /\ Range(ret.sqlite.facts) = Range(ret.neo4j.facts)
    /\ Range(ret.sqlite.facts)
         = FactsTouching(stores["project"], ret.sqlite.matchedName, ret.depth)
    /\ Range(ret.neo4j.facts)
         = FactsTouching(stores["global"], ret.neo4j.matchedName, ret.depth)

\* the part of C21 the SQLite backend decides
C21_SqliteFacts ==
  (ret.op = "graphTraverse" /\ ret.sqlite.found) =>
    Range(ret.sqlite.facts)
      = FactsTouching(stores["project"], ret.sqlite.matchedName, ret.depth)

\* ---------------------------------------------------------------------------
\* SpecCaps: the optional operations of the coordinator over a project store
\* that may or may not implement them. handle[l] holds which of the optional
\* members of StorageBackend the store of layer l has.
\* ---------------------------------------------------------------------------

CapsMaxFacts == 2

CapsScopes == {"global", "project"}

CapsNewScopes == {"global", "project", "null"}

Capabilities == [getCandidateFacts : BOOLEAN, updateFactScope : BOOLEAN]

\* mutant of dualGetCandidateFacts: a store without the operation makes the
\* call fail
dualGetCandidateFactsStrict(caps, ss, scope) ==
  IF caps.getCandidateFacts
    THEN [status |-> "ok", rows |-> getCandidateFacts(ss["project"], scope)]
    ELSE [status |-> "error", rows |-> <<>>]

\* dual.ts getCandidateFacts
dualGetCandidateFacts(caps, ss, scope) ==
  IF caps.getCandidateFacts
    THEN [status |-> "ok", rows |-> getCandidateFacts(ss["project"], scope)]
    ELSE [status |-> "ok", rows |-> <<>>]

\* dual.ts updateFactScope
dualUpdateFactScope(caps, ss, factId, scope) ==
  IF caps.updateFactScope
    THEN [status |-> "ok",
          stores |-> [ss EXCEPT !["project"] = updateFactScope(ss["project"], factId, scope)]]
    ELSE [status |-> "ok", stores |-> ss]

CapsInit ==
  /\ provider \in [Layers -> Providers]
  /\ stores = OpenedStores(provider)
  /\ handle \in [Layers -> Capabilities]
  /\ ret = NoRet
  /\ returnedEntities = {}
  /\ returnedFacts = <<>>

\* memory_store
CapsStore ==
  \E predicate \in DualPredicates :
    \E r \in {dualMemoryStore(provider, stores,
                [subject |-> NameX, predicate |-> predicate, object |-> NameY,
                 fact |-> <<"c", "1">>, context |-> <<>>, source |-> <<>>],
                [subject |-> DualVec, object |-> DualVec, fact |-> DualVec])} :
      /\ Len(stores["project"].facts) < CapsMaxFacts
      /\ stores' = r.stores
      /\ ret' = [op |-> "memory_store", status |-> r.status]
      /\ UNCHANGED <<provider, handle, returnedEntities, returnedFacts>>

\* coordinator.getCandidateFacts(scope)
CapsGetCandidateFacts ==
  \E scope \in CapsScopes :
    \E r \in {dualGetCandidateFacts(handle["project"], stores, scope)} :
      /\ ret' = [op |-> "dual.getCandidateFacts", status |-> r.status, scope |-> scope,
                 rows |-> r.rows]
      /\ UNCHANGED <<stores, provider, handle, returnedEntities, returnedFacts>>

\* coordinator.updateFactScope(factId, scope)
CapsUpdateFactScope ==
  \E f \in Range(stores["project"].facts), scope \in CapsNewScopes :
    \E r \in {dualUpdateFactScope(handle["project"], stores, f.id, scope)} :
      /\ stores' = r.stores
      /\ ret' = [op |-> "dual.updateFactScope", status |-> r.status, factId |-> f.id,
                 scope |-> scope]
      /\ UNCHANGED <<provider, handle, returnedEntities, returnedFacts>>

CapsNext == CapsStore \/ CapsGetCandidateFacts \/ CapsUpdateFactScope

SpecCaps == CapsInit /\ [][CapsNext]_vars

\* C22: Capability-absent degradation. The coordinator's getCandidateFacts and
\* updateFactScope never raise on account of a missing operation: without
\* getCandidateFacts in the project store the list is empty, without
\* updateFactScope nothing changes; with the operation the call is the project
\* store's, and the global store is neither read nor changed.
C22_CapabilityAbsentDegradation ==
  [][ /\ ret'.op = "dual.getCandidateFacts" =>
           /\ ret'.status = "ok"
           /\ stores' = stores
           /\ ret'.rows = IF handle["project"].getCandidateFacts
                            THEN getCandidateFacts(stores["project"], ret'.scope)
                            ELSE <<>>
      /\ ret'.op = "dual.updateFactScope" =>
           /\ ret'.status = "ok"
           /\ stores'["global"] = stores["global"]
           /\ stores'["project"] =
                IF handle["project"].updateFactScope
                  THEN updateFactScope(stores["project"], ret'.factId, ret'.scope)
                  ELSE stores["project"]
    ]_vars

\* the project store holds a global candidate and lacks getCandidateFacts:
\* the coordinator has returned the empty list
C22_Witness ==
  /\ ret.op = "dual.getCandidateFacts"
  /\ ret.scope = "global"
  /\ ~handle["project"].getCandidateFacts
  /\ getCandidateFacts(stores["project"], "global") # <<>>
  /\ ret.rows = <<>>
  /\ ret.status = "ok"

SearchMaxFacts == 3

SearchMaxGlobalFacts == 1

SearchMaxLimit == 2

SearchVecs == { Vec(384, 1, 0), Vec(384, 0, 1) }

SearchInit == DualInit

\* memory_store on the store of one layer (the global layer holds what
\* promotions wrote into it)
SearchStore ==
  \E l \in Layers, predicate \in DualPredicates, v \in SearchVecs :
    \E r \in {memoryStore(provider[l], stores[l],
                [subject |-> NameX, predicate |-> predicate, object |-> NameY,
                 fact |-> <<"c", "1">>, context |-> <<>>, source |-> <<>>],
                [subject |-> DualVec, object |-> DualVec, fact |-> v])} :
      /\ Len(stores[l].facts) <
           (IF l = "global" THEN SearchMaxGlobalFacts ELSE SearchMaxFacts)
      /\ stores' = [stores EXCEPT ![l] = r.st]
      /\ ret' = [op |-> "memory_store", layer |-> l, status |-> r.status]
      /\ UNCHANGED <<provider, handle, returnedEntities, returnedFacts>>

\* coordinator.searchFacts
SearchSearchFacts ==
  \E limit \in 1..SearchMaxLimit :
    \E r \in dualSearchFacts(provider, stores, DualVec, limit) :
      /\ ret' = [op |-> "dual.searchFacts", status |-> r.status, query |-> DualVec,
                 limit |-> limit, rows |-> r.rows]
      /\ UNCHANGED <<stores, provider, handle, returnedEntities, returnedFacts>>

SearchNext == SearchStore \/ SearchSearchFacts

SpecSearch == SearchInit /\ [][SearchNext]_vars

\* the triples stored in layer l, and the scores of the facts of triple t there
StoredTriples(l) == {Triple(GraphFact(stores[l], f)) : f \in Range(stores[l].facts)}

TripleScores(l, q, t) ==
  {ScoreTimes2(provider[l], q, e.embedding) :
     e \in {e \in stores[l].fact_embeddings :
              \E f \in Range(stores[l].facts) :
                f.id = e.rowid /\ Triple(GraphFact(stores[l], f)) = t}}

BestScore(q, t) == Max(UNION {TripleScores(l, q, t) : l \in Layers})

\* C24: Merged search completeness. The coordinator's searchFacts returns
\* min(limit, N) rows, N the number of distinct triples stored across both
\* layers, in descending order of score, no triple twice, each with the best
\* score of its triple, and no triple left out scores better than a returned one.
C24_MergedSearchCompleteness ==
  (ret.op = "dual.searchFacts" /\ ret.status = "ok") =>
    LET all == UNION {StoredTriples(l) : l \in Layers}
        N == Cardinality(all)
        returned == {Triple(ret.rows[i]) : i \in DOMAIN ret.rows}
    IN /\ Len(ret.rows) = (IF ret.limit < N THEN ret.limit ELSE N)
       /\ Cardinality(returned) = Len(ret.rows)
       /\ \A i \in 1..(Len(ret.rows) - 1) : ret.rows[i].score >= ret.rows[i + 1].score
       /\ \A i \in DOMAIN ret.rows :
            ret.rows[i].score = BestScore(ret.query, Triple(ret.rows[i]))
       /\ \A t \in all \ returned :
            \A i \in DOMAIN ret.rows : BestScore(ret.query, t) <= ret.rows[i].score

\* the part of C24 that holds: order, no triple twice, at most limit rows
C24_OrderedDistinctBounded ==
  (ret.op = "dual.searchFacts" /\ ret.status = "ok") =>
    /\ Len(ret.rows) <= ret.limit
    /\ Cardinality({Triple(ret.rows[i]) : i \in DOMAIN ret.rows}) = Len(ret.rows)
    /\ \A i \in 1..(Len(ret.rows) - 1) : ret.rows[i].score >= ret.rows[i + 1].score

\* C25: Merged traversal excludes its own start entity. In every result of
\* the coordinator's graphTraverse that is not null, matchedName is not among
\* the connected entities, also when the two layers resolve the query to
\* different entities.
C25_MergedExcludesStart ==
  (ret.op = "dual.graphTraverse" /\ ret.result.found) =>
    ret.result.matchedName \notin ret.result.entities

\* the part of C25 that holds: no layer lists its own start entity
C25_LayerExcludesStart ==
  ret.op = "dual.graphTraverse" =>
    /\ ret.projectResult.found => ret.projectResult.matchedName \notin ret.projectResult.entities
    /\ ret.globalResult.found => ret.globalResult.matchedName \notin ret.globalResult.entities

\* C26: Promotion creates one global fact per candidate. One promote run adds
\* to the global layer at most one fact for each candidate selected, however
\* often the answer names it, and a run that completes reports as promoted the
\* number of project facts whose candidate tag it cleared.
C26_OneGlobalFactPerCandidate ==
  [][ ret'.op = "promote" =>
        /\ Cardinality(NewFacts(stores["global"], stores'["global"]))
             <= Cardinality(Range(ret'.indices))
        /\ ret'.status = "done" =>
             ret'.promoted =
               Cardinality({f \in Range(stores["project"].facts) :
                              /\ ScopeOf(stores["project"], f.id) = "global"
                              /\ ScopeOf(stores'["project"], f.id) = "none"})
    ]_vars

\* ---------------------------------------------------------------------------
\* SpecWrites: findOrCreateEntity and storeFact on one store (the project
\* layer) with embeddings of the store's dimension and of another one
\* ---------------------------------------------------------------------------

WritesMaxFacts == 2

WritesVecs == { Vec(384, 1, 0), Vec(768, 1, 0) }

WritesInit == DualInit

\* StorageBackend.findOrCreateEntity
WritesFindOrCreateEntity ==
  \E name \in StoreNames, embedding \in WritesVecs :
    \E r \in {backendFindOrCreateEntity(provider["project"], stores["project"],
                                        name, embedding)} :
      /\ stores' = [stores EXCEPT !["project"] = r.st]
      /\ ret' = [op |-> "findOrCreateEntity", status |-> r.status, name |-> name,
                 existed |-> HasEntityNamed(stores["project"], name)]
      /\ UNCHANGED <<provider, handle, returnedEntities, returnedFacts>>

\* StorageBackend.storeFact
WritesStoreFact ==
  \E s \in Range(stores["project"].entities), o \in Range(stores["project"].entities),
     embedding \in WritesVecs :
    \E r \in {backendStoreFact(provider["project"], stores["project"],
                [subjectId |-> s.id, predicate |-> MergePredicate, objectId |-> o.id,
                 content |-> <<"c", "1">>, context |-> <<>>, source |-> <<>>,
                 embedding |-> embedding, scopeCandidate |-> "undefined"])} :
      /\ Len(stores["project"].facts) < WritesMaxFacts
      /\ stores' = [stores EXCEPT !["project"] = r.st]
      /\ ret' = [op |-> "storeFact", status |-> r.status, name |-> s.name,
                 existed |-> FALSE]
      /\ UNCHANGED <<provider, handle, returnedEntities, returnedFacts>>

WritesNext == WritesFindOrCreateEntity \/ WritesStoreFact

SpecWrites == WritesInit /\ [][WritesNext]_vars

FactEmbeddingRows(st, id) == {e \in st.fact_embeddings : e.rowid = id}

\* C27: Store writes are all-or-nothing. In every reachable state each fact
\* of the store has exactly one fact embedding, whether or not a storeFact
\* failed; and an entity that had an embedding has one after a failed
\* findOrCreateEntity on its name.
C27_WritesAllOrNothing ==
  /\ \A f \in Range(stores["project"].facts) :
       Cardinality(FactEmbeddingRows(stores["project"], f.id)) = 1
  /\ (ret.op = "findOrCreateEntity" /\ ret.status = "error" /\ ret.existed) =>
       Cardinality(EmbeddingRows(stores["project"],
                                 EntityByName(stores["project"], ret.name).id)) = 1

\* C27 holds on the Neo4j backend, where each write is one query
C27_Neo4jWrites ==
  provider["project"] = "neo4j" => C27_WritesAllOrNothing

\* ---------------------------------------------------------------------------
\* SpecLayers: the two backends createBackend returns in dual mode, and the
\* physical data each of them works on. handle[l] is the backend of layer l:
\* its provider and the place of its data (a database file, or the Neo4j
\* server). stores[l] is the data seen through the backend of layer l.
\* ---------------------------------------------------------------------------

LayersMaxFacts == 2

DbPaths == {"memory.db", "global.db"}

Neo4jUri == "bolt://localhost:7687"

\* the configurations with dual mode enabled
DualConfigs ==
  [storageProvider : Providers, globalStorageProvider : Providers,
   dbPath : DbPaths, globalDbPath : DbPaths, neo4jUri : {Neo4jUri}]

\* db.ts initDb(): the function has no parameter and opens config.dbPath,
\* whatever the caller passes
initDbPath(config, dbPath) == [kind |-> "sqlite", place |-> config.dbPath]

\* neo4j.ts initNeo4j(): the driver of config.neo4jUri
initNeo4jDriver(config) == [kind |-> "neo4j", place |-> config.neo4jUri]

\* backend-factory.ts createBackend(config, layer)
createBackend(config, layer) ==
  IF layer = "global"
    THEN IF config.globalStorageProvider = "neo4j" THEN initNeo4jDriver(config)
         ELSE initDbPath(config, config.globalDbPath)
    ELSE IF config.storageProvider = "neo4j" THEN initNeo4jDriver(config)
         ELSE initDbPath(config, config.dbPath)

LayersInit ==
  /\ \E config \in DualConfigs :
       /\ config.dbPath # config.globalDbPath
       /\ handle = [l \in Layers |-> createBackend(config, l)]
  /\ provider = [l \in Layers |-> handle[l].kind]
  /\ stores = OpenedStores(provider)
  /\ ret = NoRet
  /\ returnedEntities = {}
  /\ returnedFacts = <<>>

\* memory_store through the coordinator: the data of the project backend
\* changes, and with it what every backend on the same data sees
LayersStore ==
  \E predicate \in DualPredicates :
    \E r \in {dualMemoryStore(provider, stores,
                [subject |-> NameX, predicate |-> predicate, object |-> NameY,
                 fact |-> <<"c", "1">>, context |-> <<>>, source |-> <<>>],
                [subject |-> DualVec, object |-> DualVec, fact |-> DualVec])} :
      /\ Len(stores["project"].facts) < LayersMaxFacts
      /\ stores' = [l \in Layers |->
                      IF handle[l] = handle["project"] THEN r.stores["project"]
                      ELSE stores[l]]
      /\ ret' = [op |-> "memory_store", status |-> r.status, rows |-> <<>>]
      /\ UNCHANGED <<provider, handle, returnedEntities, returnedFacts>>

\* searchFacts on the global store alone
LayersGlobalSearch ==
  \E r \in backendSearchFacts(provider["global"], stores["global"], DualVec, LayersMaxFacts) :
    /\ ret' = [op |-> "global.searchFacts", status |-> r.status, rows |-> r.rows]
    /\ UNCHANGED <<stores, provider, handle, returnedEntities, returnedFacts>>

LayersNext == LayersStore \/ LayersGlobalSearch

SpecLayers == LayersInit /\ [][LayersNext]_vars

\* C28: Layer independence. In every dual mode configuration the project and
\* the global backend work on different physical data, and a fact written
\* through the coordinator is not returned by the global store alone as long
\* as nothing was promoted.
C28_LayerIndependence ==
  /\ handle["project"] # handle["global"]
  /\ ret.op = "global.searchFacts" => ret.rows = <<>>

\* the part of C28 that holds: configurations with two different providers
C28_DifferentProviders ==
  provider["project"] # provider["global"] => C28_LayerIndependence

\* ---------------------------------------------------------------------------
\* SpecTool: the memory_store tool handler on one store, with an embedding
\* provider that may reject any of its calls. The k-th call of embed in a
\* handler run is answered as outcomes[k] says.
\* ---------------------------------------------------------------------------

ToolMaxFacts == 2

ToolMaxEmbedCalls == 4

EmbedOutcomes == [1..ToolMaxEmbedCalls -> BOOLEAN]

\* mutant of memoryStoreHandler: each text is embedded right before the store
\* call that needs it
memoryStoreHandlerEmbedLate(kind, st, args, vecs, outcomes) ==
  IF ~outcomes[1] THEN [st |-> st, status |-> "error", embedCalls |-> 1]
  ELSE
    LET r1 == backendFindOrCreateEntity(kind, st, args.subject, vecs.subject)
    IN IF r1.status # "ok" THEN [st |-> r1.st, status |-> "error", embedCalls |-> 1]
       ELSE IF ~outcomes[2] THEN [st |-> r1.st, status |-> "error", embedCalls |-> 2]
       ELSE
         LET r2 == backendFindOrCreateEntity(kind, r1.st, args.object, vecs.object)
         IN IF r2.status # "ok" THEN [st |-> r2.st, status |-> "error", embedCalls |-> 2]
            ELSE IF ~outcomes[3] THEN [st |-> r2.st, status |-> "error", embedCalls |-> 3]
            ELSE
              LET r3 == backendStoreFact(kind, r2.st,
                          [subjectId |-> r1.id, predicate |-> args.predicate,
                           objectId |-> r2.id, content |-> args.fact,
                           context |-> args.context, source |-> args.source,
                           embedding |-> vecs.fact, scopeCandidate |-> "undefined"])
              IN [st |-> r3.st, status |-> r3.status, embedCalls |-> 3]

\* tools/store.ts, the handler of memory_store: Promise.all over the three
\* embed calls, then findOrCreateEntity twice, then storeFact
memoryStoreHandler(kind, st, args, vecs, outcomes) ==
  IF ~(outcomes[1] /\ outcomes[2] /\ outcomes[3])
    THEN [st |-> st, status |-> "error", embedCalls |-> 3]
    ELSE LET r == memoryStore(kind, st, args, vecs)
         IN [st |-> r.st, status |-> r.status, embedCalls |-> 3]

ToolInit == DualInit

ToolStore ==
  \E predicate \in DualPredicates, v \in SearchVecs, outcomes \in EmbedOutcomes :
    \E r \in {memoryStoreHandler(provider["project"], stores["project"],
                [subject |-> NameX, predicate |-> predicate, object |-> NameY,
                 fact |-> <<"c", "1">>, context |-> <<>>, source |-> <<>>],
                [subject |-> v, object |-> v, fact |-> v], outcomes)} :
      /\ Len(stores["project"].facts) < ToolMaxFacts
      /\ stores' = [stores EXCEPT !["project"] = r.st]
      /\ ret' = [op |-> "memory_store", status |-> r.status, outcomes |-> outcomes,
                 embedCalls |-> r.embedCalls, vec |-> v]
      /\ UNCHANGED <<provider, handle, returnedEntities, returnedFacts>>

ToolNext == ToolStore

SpecTool == ToolInit /\ [][ToolNext]_vars

\* one of the three embed calls of the handler was rejected
EmbedFailed(outcomes) == \E k \in 1..3 : ~outcomes[k]

\* C29: Store tool embeds before it writes. When the embedding provider
\* rejects any of the three texts the memory_store handler fails and the store
\* is as it was before: no entity and no fact created or modified. The handler
\* calls the provider three times, once per text, and never again.
C29_EmbedsBeforeWrites ==
  [][ ret'.op = "memory_store" =>
        /\ ret'.embedCalls = 3
        /\ EmbedFailed(ret'.outcomes) =>
             /\ ret'.status = "error"
             /\ stores' = stores ]_vars

\* a handler run whose fact embedding failed, on a store that already holds
\* the two entities with another embedding
C29_Witness ==
  /\ ret.op = "memory_store"
  /\ ret.status = "error"
  /\ ret.outcomes[1] /\ ret.outcomes[2] /\ ~ret.outcomes[3]
  /\ Len(stores["project"].facts) = 1
  /\ \E r \in stores["project"].entity_embeddings : r.embedding # ret.vec

\* ---------------------------------------------------------------------------
\* SpecDangle: memory_store handlers running one store call at a time on the
\* same store, interleaved with each other and with search, graph and list
\* reads. handle[h] is the position of handler h: which await it has passed,
\* its arguments and the ids it holds.
\* ---------------------------------------------------------------------------

DangleMaxFacts == 2

DangleHandlers == {"h1", "h2"}

HandlerIdle == [pc |-> "idle", subject |-> <<>>, object |-> <<>>, subjectId |-> 0, objectId |-> 0]

StoreFactOf(h, objectId) ==
  [subjectId |-> h.subjectId, predicate |-> <<"u", "s", "e", "s">>,
   objectId |-> objectId, content |-> <<"c", "1">>, context |-> <<>>,
   source |-> <<>>, embedding |-> DualVec, scopeCandidate |-> "undefined"]

\* mutant of memoryStoreStep: the fact row is written after the subject
\* entity, with the id the object entity has or will get, and the object
\* entity is created last
memoryStoreStepFactEarly(kind, st, h) ==
  IF h.pc = "embedded"
    THEN LET r == backendFindOrCreateEntity(kind, st, h.subject, DualVec)
         IN [st |-> r.st, h |-> [h EXCEPT !.pc = "subject", !.subjectId = r.id]]
  ELSE IF h.pc = "subject"
    THEN LET factId == IF kind = "neo4j" THEN NextNodeId(st) ELSE NextRowid(st.facts)
             objectId == IF HasEntityNamed(st, h.object) THEN EntityByName(st, h.object).id
                         ELSE IF kind = "neo4j" THEN NextNodeId(st) + 1
                         ELSE NextRowid(st.entities)
         IN [st |-> [st EXCEPT !.facts = Append(st.facts, FactRow(factId, StoreFactOf(h, objectId))),
                               !.fact_embeddings =
                                   st.fact_embeddings \cup {[rowid |-> factId, embedding |-> DualVec]}],
             h |-> [h EXCEPT !.pc = "object", !.objectId = objectId]]
  ELSE LET r == backendFindOrCreateEntity(kind, st, h.object, DualVec)
       IN [st |-> r.st, h |-> HandlerIdle]

\* tools/store.ts, the store calls of the handler after the embeddings are
\* there: one call per step, each awaited before the next
memoryStoreStep(kind, st, h) ==
  IF h.pc = "embedded"
    THEN LET r == backendFindOrCreateEntity(kind, st, h.subject, DualVec)
         IN [st |-> r.st,
             h |-> IF r.status = "ok" THEN [h EXCEPT !.pc = "subject", !.subjectId = r.id]
                   ELSE HandlerIdle]
  ELSE IF h.pc = "subject"
    THEN LET r == backendFindOrCreateEntity(kind, st, h.object, DualVec)
         IN [st |-> r.st,
             h |-> IF r.status = "ok" THEN [h EXCEPT !.pc = "object", !.objectId = r.id]
                   ELSE HandlerIdle]
  ELSE LET r == backendStoreFact(kind, st, StoreFactOf(h, h.objectId))
       IN [st |-> r.st, h |-> HandlerIdle]

InFlight == {h \in DangleHandlers : handle[h].pc # "idle"}

DangleInit ==
  /\ provider \in [Layers -> Providers]
  /\ stores = OpenedStores(provider)
  /\ handle = [h \in DangleHandlers |-> HandlerIdle]
  /\ ret = NoRet
  /\ returnedEntities = {}
  /\ returnedFacts = <<>>

\* a memory_store request arrives and its three embeddings are obtained
DangleBegin ==
  \E h \in DangleHandlers, subject \in DualNames, object \in DualNames :
    /\ handle[h].pc = "idle"
    /\ Len(stores["project"].facts) + Cardinality(InFlight) < DangleMaxFacts
    /\ handle' = [handle EXCEPT ![h] = [HandlerIdle EXCEPT !.pc = "embedded",
                                          !.subject = subject, !.object = object]]
    /\ UNCHANGED <<stores, provider, ret, returnedEntities, returnedFacts>>

\* the next store call of a handler in flight
DangleStep ==
  \E h \in DangleHandlers :
    /\ handle[h].pc # "idle"
    /\ \E r \in {memoryStoreStep(provider["project"], stores["project"], handle[h])} :
         /\ stores' = [stores EXCEPT !["project"] = r.st]
         /\ handle' = [handle EXCEPT ![h] = r.h]
    /\ UNCHANGED <<provider, ret, returnedEntities, returnedFacts>>

\* memory_search between two store calls
DangleSearch ==
  \E r \in backendSearchFacts(provider["project"], stores["project"], DualVec, DangleMaxFacts) :
    /\ ret' = [op |-> "memory_search", facts |-> r.rows, names |-> {}]
    /\ UNCHANGED <<stores, provider, handle, returnedEntities, returnedFacts>>

\* memory_graph between two store calls
DangleGraph ==
  \E query \in DualNames :
    \E r \in graphTraverseResults(provider["project"], stores["project"], query, 1) :
      /\ ret' = [op |-> "memory_graph", facts |-> r.facts,
                 names |-> IF r.found THEN r.entities \cup {r.matchedName} ELSE {}]
      /\ UNCHANGED <<stores, provider, handle, returnedEntities, returnedFacts>>

\* memory_list between two store calls
DangleList ==
  \E rows \in {backendListEntities(provider["project"], stores["project"], <<>>)} :
    /\ ret' = [op |-> "memory_list", facts |-> <<>>, names |-> {r.name : r \in Range(rows)}]
    /\ UNCHANGED <<stores, provider, handle, returnedEntities, returnedFacts>>

DangleNext == DangleBegin \/ DangleStep \/ DangleSearch \/ DangleGraph \/ DangleList

SpecDangle == DangleInit /\ [][DangleNext]_vars

\* C30: Readers never see a dangling fact. At every point of every
\* interleaving of memory_store handlers and reads, each fact of the store,
\* and each fact a search or graph read returned, has a subject entity and an
\* object entity that exist in the store.
C30_NoDanglingFact ==
  /\ \A f \in Range(stores["project"].facts) :
       /\ HasEntityId(stores["project"], f.subject_id)
       /\ HasEntityId(stores["project"], f.object_id)
  /\ ret # NoRet =>
       /\ \A k \in DOMAIN ret.facts :
            /\ HasEntityNamed(stores["project"], ret.facts[k].subject)
            /\ HasEntityNamed(stores["project"], ret.facts[k].object)
       /\ \A name \in ret.names : HasEntityNamed(stores["project"], name)

\* a list read between the second findOrCreateEntity of a handler and its
\* storeFact: both entities are observed, the fact is not there yet
C30_Witness ==
  /\ ret.op = "memory_list"
  /\ stores["project"].facts = <<>>
  /\ \E h \in DangleHandlers :
       /\ handle[h].pc = "object"
       /\ handle[h].subject # handle[h].object
       /\ {handle[h].subject, handle[h].object} \subseteq ret.names

====
